---- MODULE Spec2Model ----
(***************************************************************************)
(* Gateway connection core of dis_snek: one WebSocket session (main        *)
(* gateway or voice gateway) with its run loop, its heartbeater and an     *)
(* application task that sends frames, and the connection supervisor.      *)
(*                                                                         *)
(* Tasks are asyncio tasks: a step of the model is the code a task runs    *)
(* between two suspension points (await of a lock, an event, a socket      *)
(* operation or a timer). A socket write hands its frame to the socket     *)
(* when the call begins and may then suspend until the socket has drained. *)
(***************************************************************************)
EXTENDS Integers, Sequences, FiniteSets, TLC

\* ------------------------------------------------------------------ bounds
MaxTicks == 1      \* expiries of the heartbeat timer
MaxFrames == 2     \* responses the socket delivers to the run loop
MaxSends == 1      \* send() calls of the application task
MaxSockets == 2    \* sockets opened by one session (open + reconnects)
LiveFrames == 1    \* responses the socket delivers in a behaviour of LiveSpec
MaxAttempts == 3   \* connection attempts of the supervisor
MaxPeriodFrames == 2   \* frames counted within one refill period of the rate limiter
MaxMsgs == 2       \* compressed messages one socket delivers to receive()
MaxFrameLen == 5   \* bytes of the longest binary frame
MaxTexts == 1      \* text frames delivered to receive()
MaxUpdates == 3    \* set_new_voice_server calls on one voice session
MaxVoiceReconnects == 2   \* non-resume reconnects of one voice session
MaxModes == 3      \* modes a voice READY offers
MaxPackets == 2    \* voice packets sent after the handshake
MaxData == 2       \* bytes of the payload handed to encrypt()
MaxField == 1      \* largest value of a header field and of a payload byte
MaxEvents == 2     \* DISPATCH frames one gateway session hands to dispatch_event
MaxSeq == 3        \* largest sequence number of a DISPATCH frame
ByteBase == 4      \* values of one byte (scaled down from 256)

\* ------------------------------------------------------- program constants
Null == -1                  \* Python None (sequence, session_id, ws)
DefaultCloseCode == 1012    \* reconnect(code=1012)
CleanClose == 1000
FatalFloor == 4000
VoiceDisconnected == 4014
ShardingRequired == 4011
InvalidIntents == 4013
DisallowedIntents == 4014
ConnResetBSD == 54
ConnResetWin == 10054
NonceLen == 24              \* bytearray(24), SecretBox.NONCE_SIZE
HeaderLen == 12             \* bytearray(12), nonce[:12]
DiscoveryLen == 70          \* bytearray(70), sock_recv(self.socket, 70)
DiscoverySend == 1          \* struct.pack_into(">H", packet, 0, 1)
IpStart == 4                \* ip_start = 4

Tasks == {"rx", "hb", "tx"}
Kinds == {"main", "voice"}
CloseCodes == {CleanClose, 3999, FatalFloor, VoiceDisconnected}

VARIABLES
  kind,          \* "main": GatewayClient, "voice": VoiceGateway
  pc,            \* position of each task
  ret,           \* where a task continues after send() / reconnect()
  rcResume,      \* reconnect(resume=...) of each task
  rcCode,        \* reconnect(code=...) of each task
  rcSeen,        \* socket generation a task saw when it called reconnect()
  ws,            \* self.ws: Null or the number of the socket
  sockOpen,      \* the socket self.ws names is connected and not closed
  closeCode,     \* code of the ws.close() the session called on that socket, 0: none
  closed,        \* self._closed (event): no reconnect in progress
  acknowledged,  \* self._acknowledged (event)
  killBeeGees,   \* self._kill_bee_gees (event)
  closeGateway,  \* self._close_gateway (event)
  keepAlive,     \* self._keep_alive is not None
  entered,       \* self._entered
  lockQ,         \* self._race_lock: holder first, then the waiters in order
  sequence,      \* self.sequence
  session_id,    \* self.session_id
  wire,          \* frames handed to the current socket, in order
  nhInPeriod,    \* frames other than heartbeats written in the current refill period
  wframe,        \* frame of a socket write in flight, per task
  wsock,         \* socket of a socket write in flight, per task
  msg,           \* message returned by receive(), not yet processed by run()
  pendingEv,     \* spawned dispatch_event tasks that have not run yet
  exc,           \* exception that ended a task's operation
  excCode,       \* close code of a WebSocketClosed exception
  lastResp,      \* CLOSE / CLOSED response the run-loop receiver is handling
  ticks, frames, sends, gen,   \* counters (bounded)
  srvSeq,        \* last sequence number the server sent on this session
  ackDue,        \* the server has a heartbeat to acknowledge
  vsu,           \* self._voice_server_update (event)
  tickSawPending,\* the current heartbeat cycle began with the ack pending
  hbReconnected, \* the heartbeater reconnected in the current cycle
  lastRc,        \* how the latest reconnect() ended, "running" meanwhile
  rcSnapSid, rcSnapSeq,  \* session_id / sequence when the running reconnect began
  sendFound,     \* lastRc when a send() last found no socket ("unopened": before __aenter__)
  tokens,        \* tokens the rate limiter's cooldown holds (0 or 1)
  sockBy,        \* what opened the current socket: open, identify, resume
  supPc, params, supWs, supExc, attempts, outcome,   \* supervisor
  stream,        \* receive(): compressed bytes the current socket delivers
  pos,           \* how many of them it has delivered
  buffer,        \* the local `buffer` of the running receive() call
  bufSock,       \* socket that delivered the oldest byte of buffer, 0: empty
  zfed,          \* bytes self._zlib has consumed since it was created
  zsock,         \* socket that was current when self._zlib was created
  rsock,         \* current socket of the receiving session
  returned,      \* what receive() has returned to the run loop, in order
  rstate,        \* "reading", or "raised": an exception ended the run loop
  ntext,         \* text frames delivered (bounded)
  fragmented,    \* some binary frame so far carried less than a whole message
  ws_url,        \* voice: number of the payload self.ws_url was taken from
  token,         \* voice: number of the payload self.token / self.guild_id were taken from
  voiceServerUpdate,   \* voice: self._voice_server_update (event)
  vrPc,          \* voice: position of the non-resume reconnect
  connUrl,       \* voice: endpoint the latest websocket_connect was called with
  sockUrl,       \* voice: endpoint of the socket self.ws names, Null: no socket
  identTok,      \* voice: token of the latest IDENTIFY written
  heard,         \* voice: payload of the latest call made while this reconnect waited, 0: none
  nVr,           \* voice: non-resume reconnects so far (bounded)
  offered,       \* voice handshake: data["modes"] of the READY received on this connection
  voice_modes,   \* self.voice_modes
  hsPc,          \* voice handshake: position of the run loop
  datagrams,     \* IP discovery datagrams sent on the UDP socket
  selected,      \* modes of the SELECT_PROTOCOL frames sent on this connection, in order
  ready,         \* self.ready (event)
  hsExc,         \* exception that ended the run loop during the handshake
  usedMode,      \* mode the latest packet was encrypted with
  packets,       \* packets sent (bounded)
  encPc,         \* encrypt(): "called", then "done"
  encMode, encHeader, encData,   \* arguments of the encrypt() call
  encNonce,      \* nonce handed to the cipher by that call, <<>>: none
  encOut,        \* what the call returned, <<>>: nothing
  encExc,        \* exception the call raised
  sock_sequence, \* self.sock_sequence
  timestamp,     \* self.timestamp
  ssrc,          \* self.ssrc
  spf,           \* encoder.samples_per_frame of the latest send_packet call
  rtpHeader,     \* header the latest generate_packet call built, <<>>: none
  rtpPacket,     \* packet the latest send_packet call handed to the UDP socket
  dgram,         \* discovery datagram handed to the UDP socket, <<>>: none
  reply,         \* what sock_recv returned, <<>>: nothing yet
  me_ip,         \* self.me_ip (the bytes of the ASCII string)
  me_port,       \* self.me_port
  selectFrame,   \* data of the latest SELECT_PROTOCOL frame sent
  trace,         \* self._trace
  dispatched,    \* names of the events handed to client.dispatch, in order
  spawned,       \* tasks created by dispatch_event, in order
  evIn,          \* arguments of the dispatch_event task spawned and not run yet
  evExc,         \* exception that ended the latest dispatch_event task
  nEv,           \* DISPATCH frames handed to dispatch_event so far (bounded)
  encryptor,     \* voice: self.encryptor, with the connection its secret key came from
  vconn          \* voice: number of the gateway connection self.ws names, 0: none

\* what a call of send() may change besides pc, ret, lockQ, exc
sendOnly == <<wframe, wsock, closeGateway, wire, nhInPeriod, ackDue, sendFound, tokens>>
\* what a call of reconnect() may change besides pc, ret, lockQ, exc
rcOnly == <<rcResume, rcCode, rcSeen, closed, sockOpen, closeCode, lastRc, rcSnapSid, rcSnapSeq, vsu>>
\* what neither changes
hbHist == <<tickSawPending, hbReconnected>>
counters == <<ticks, frames, sends, gen>>
supVars == <<supPc, params, supWs, supExc, attempts, outcome>>
sessVars == <<kind, pc, ret, lockQ, exc, sendOnly, rcOnly, ws, acknowledged,
              killBeeGees, keepAlive, entered, sequence, session_id, msg, pendingEv,
              excCode, lastResp, counters, srvSeq, hbHist, sockBy>>
decVars == <<stream, pos, buffer, bufSock, zfed, zsock, rsock, returned, rstate, ntext,
             fragmented>>
vsuVars == <<ws_url, token, voiceServerUpdate, vrPc, connUrl, sockUrl, identTok, heard, nVr>>
modeVars == <<offered, voice_modes, hsPc, datagrams, selected, ready, hsExc, usedMode, packets>>
encVars == <<encPc, encMode, encHeader, encData, encNonce, encOut, encExc>>
pktVars == <<sock_sequence, timestamp, ssrc, spf, rtpHeader, rtpPacket>>
pktRest == <<sock_sequence, timestamp, spf, rtpHeader, rtpPacket>>
discVars == <<dgram, reply, me_ip, me_port, selectFrame>>
rdyVars == <<encryptor, vconn>>
voiVars == <<vsuVars, modeVars, encVars, pktVars, discVars, rdyVars>>
evVars == <<trace, dispatched, spawned, evIn, evExc, nEv>>
otherVars == <<supVars, decVars, voiVars, evVars>>
vars == <<sessVars, supVars, decVars, voiVars, evVars>>

\* ------------------------------------------------------------------ frames
NoFrame == [op |-> "none", seq |-> Null, sid |-> Null]
NoMsg == [op |-> "none", d |-> FALSE, s |-> 0, t |-> "none", sid |-> Null]
NoResp == [type |-> "none", code |-> 0]

\* GatewayClient._identify / VoiceGateway._identify: the IDENTIFY payload
IdentifyFrame == [op |-> "IDENTIFY", seq |-> Null, sid |-> Null]

\* GatewayClient._resume_connection: RESUME {seq: self.sequence, session_id: self.session_id}
ResumeFrame == [op |-> "RESUME", seq |-> sequence, sid |-> session_id]

\* send_heartbeat: main {"op": HEARTBEAT, "d": self.sequence}; voice sends a random number
HeartbeatFrame ==
  [op |-> "HEARTBEAT", seq |-> IF kind = "main" THEN sequence ELSE Null, sid |-> Null]

\* change_presence / request_member_chunks / voice_state_update / _select_protocol
AppFrame == [op |-> "PRESENCE", seq |-> Null, sid |-> Null]

\* send_json(..., bypass): True only in GatewayClient.send_heartbeat
Bypass(f) == f.op = "HEARTBEAT" /\ kind = "main"

\* variant: a heartbeater that does not look at the acknowledgement
HbNeverReconnects == FALSE

\* _start_bee_gees: `if not self._acknowledged.is_set()`
HbNeedsReconnect == ~acknowledged

\* variant: close code 4000 itself is not treated as fatal
CloseFatalAbove(code) == code > FatalFloor

\* WebsocketClient.receive: `if resp.data >= 4000: raise WebSocketClosed(resp.data)`
CloseIsFatal(code) == code >= FatalFloor

\* WebsocketClient.receive: `reconnect(code=resp.data, resume=resp.data != 1000)`
CloseResume(code) == code # CleanClose

\* GatewayClient.dispatch_opcode INVALIDATE_SESSION: session_id / sequence after the opcode
InvalidateSessionId(d) == session_id
InvalidateSequence(d) == sequence

\* variant: a run loop that leaves the sequence to the spawned handler
SeqLeftToHandler(m) == sequence

\* run(): `if seq: self.sequence = seq`
SeqAfter(m) == IF m.s # 0 THEN m.s ELSE sequence

\* ------------------------------------------------------------ the send lock
\* variant: callers that do not wait for the lock
LockIgnored(q) == TRUE
LockFree(q) == q = <<>>
Holds(t) == lockQ # <<>> /\ Head(lockQ) = t
Release == Tail(lockQ)
Without(q, t) == SelectSeq(q, LAMBDA x : x # t)

\* --------------------------------------------------------------- exceptions
OpenPcs == {"o_start", "o_connect", "o_hello", "o_ident"}

\* the heartbeater's exception ends in run_bee_gees; one of the run loop leaves
\* run() and reaches __aexit__; one of __aenter__ leaves before the with-block
\* is entered; the application task gets its exception back
RaisePc(t) ==
  IF t = "hb" THEN "hb_end"
  ELSE IF t = "tx" THEN "t_idle"
  ELSE IF pc[t] \in OpenPcs THEN "o_failed" ELSE "x_start"

\* variant: a heartbeater whose exception is not caught in run_bee_gees
RaiseUncaught(t) == closeGateway

\* run_bee_gees: `except Exception: self.close()`
RaiseClose(t) == IF t = "hb" THEN TRUE ELSE closeGateway

\* exception e leaves the operation of task t; rest is the lock queue it leaves
Raises(t, e, rest) ==
  /\ lockQ' = rest
  /\ pc' = [pc EXCEPT ![t] = RaisePc(t)]
  /\ exc' = [exc EXCEPT ![t] = e]
  /\ closeGateway' = RaiseClose(t)
  /\ ret' = [ret EXCEPT ![t] = "none"]
  /\ wframe' = [wframe EXCEPT ![t] = NoFrame]
  /\ wsock' = [wsock EXCEPT ![t] = Null]

\* top of the receive loop: `if not force: await self._closed.wait()`, then
\* `await self.ws.receive()`. VoiceGateway.receive defaults to force=True.
Forced == kind = "voice"
RecvTopPc(c, w) ==
  IF Forced \/ c THEN (IF w = Null THEN "x_start" ELSE "r_read") ELSE "r_wait"
RecvTopExc(c, w) ==
  IF (Forced \/ c) /\ w = Null THEN "AttributeError" ELSE "none"

\* -------------------------------------------------------------------- Init
SessInit ==
  /\ kind \in Kinds
  /\ pc = [t \in Tasks |-> IF t = "rx" THEN "o_start" ELSE IF t = "hb" THEN "idle" ELSE "t_idle"]
  /\ ret = [t \in Tasks |-> "none"]
  /\ rcResume = [t \in Tasks |-> FALSE]
  /\ rcCode = [t \in Tasks |-> DefaultCloseCode]
  /\ rcSeen = [t \in Tasks |-> 0]
  /\ ws = Null /\ sockOpen = FALSE
  /\ closed = FALSE /\ acknowledged = TRUE
  /\ killBeeGees = FALSE /\ closeGateway = FALSE
  /\ keepAlive = FALSE /\ entered = FALSE
  /\ lockQ = <<>>
  /\ sequence = Null /\ session_id = Null
  /\ wire = <<>>
  /\ wframe = [t \in Tasks |-> NoFrame]
  /\ wsock = [t \in Tasks |-> Null]
  /\ msg = NoMsg /\ pendingEv = <<>>
  /\ exc = [t \in Tasks |-> "none"] /\ excCode = 0
  /\ lastResp = NoResp
  /\ ticks = 0 /\ frames = 0 /\ sends = 0 /\ gen = 0
  /\ srvSeq = 0 /\ ackDue = FALSE /\ vsu = FALSE
  /\ tickSawPending = FALSE /\ hbReconnected = FALSE
  /\ lastRc = "none" /\ rcSnapSid = Null /\ rcSnapSeq = Null
  /\ sendFound = "never"
  /\ sockBy = "none"
  /\ closeCode = 0
  /\ tokens = 1 /\ nhInPeriod = 0

NoExc == [type |-> "none", code |-> 0, resume |-> FALSE]
FreshParams == [resume |-> FALSE, session_id |-> Null, sequence |-> Null]

SupIdle ==
  /\ supPc = "off"
  /\ params = FreshParams
  /\ supWs = [session_id |-> Null, sequence |-> Null]
  /\ supExc = NoExc
  /\ attempts = 0 /\ outcome = "none"

\* no receive() is being followed
DecIdle ==
  /\ stream = <<>> /\ pos = 0
  /\ buffer = <<>> /\ bufSock = 0
  /\ zfed = <<>> /\ zsock = 0 /\ rsock = 0
  /\ returned = <<>> /\ rstate = "idle" /\ ntext = 0 /\ fragmented = FALSE

\* no voice server update is being followed
VsuIdle ==
  /\ ws_url = 0 /\ token = 0 /\ voiceServerUpdate = FALSE
  /\ vrPc = "off" /\ connUrl = 0 /\ sockUrl = Null /\ identTok = Null
  /\ heard = 0 /\ nVr = 0
\* no voice handshake is being followed
ModeIdle ==
  /\ offered = <<>> /\ voice_modes = <<>> /\ hsPc = "off"
  /\ datagrams = 0 /\ selected = <<>> /\ ready = FALSE
  /\ hsExc = "none" /\ usedMode = "none" /\ packets = 0
\* no encrypt() call is being followed
EncIdle ==
  /\ encPc = "off" /\ encMode = "none" /\ encHeader = <<>> /\ encData = <<>>
  /\ encNonce = <<>> /\ encOut = <<>> /\ encExc = "none"
\* no packet has been sent
PktIdle ==
  /\ sock_sequence = 0 /\ timestamp = 0 /\ ssrc = 0 /\ spf = 0
  /\ rtpHeader = <<>> /\ rtpPacket = <<>>
NoSelect == [address |-> <<>>, port |-> 0, mode |-> "none"]
\* no IP discovery is being followed
DiscIdle ==
  /\ dgram = <<>> /\ reply = <<>> /\ me_ip = <<>> /\ me_port = 0
  /\ selectFrame = NoSelect
\* no attribute `encryptor` yet: __init__ does not assign one
NoEncryptor == [secret_key |-> 0, conn |-> 0]
\* no voice connection is being followed
RdyIdle == encryptor = NoEncryptor /\ vconn = 0
VoiIdle == VsuIdle /\ ModeIdle /\ EncIdle /\ PktIdle /\ DiscIdle /\ RdyIdle

\* no dispatch_event task is being followed
NoEvent == [event |-> "none", seq |-> 0, has_session_id |-> FALSE, session_id |-> Null,
            has_trace |-> FALSE, trace |-> <<>>, processor |-> FALSE]
EvIdle ==
  /\ trace = <<>> /\ dispatched = <<>> /\ spawned = <<>>
  /\ evIn = NoEvent /\ evExc = "none" /\ nEv = 0

Init == SessInit /\ SupIdle /\ DecIdle /\ VoiIdle /\ EvIdle

\* variables neither send() nor reconnect() changes
outside == <<kind, ws, acknowledged, killBeeGees, keepAlive, entered, sequence,
             session_id, msg, pendingEv, excCode, lastResp, counters, srvSeq, hbHist,
             sockBy, otherVars>>

\* ------------------------------------------------------------------ send()
\* Where a task continues when send() returns.
AfterSendPc(t) ==
  IF t = "hb" THEN "hb_sleep" ELSE IF t = "tx" THEN "t_idle" ELSE RecvTopPc(closed, ws)
AfterSendExc(t) ==
  IF t = "rx" THEN RecvTopExc(closed, ws) ELSE "none"

\* WebsocketRateLimit: CooldownSystem(1, interval / rate) holds one token, which
\* is back one refill period after it was taken
TokenFree == tokens > 0

\* frames other than heartbeats handed to the socket since the refill period began
PeriodFrames(f) ==
  IF f.op # "HEARTBEAT" /\ nhInPeriod < MaxPeriodFrames THEN nhInPeriod + 1 ELSE nhInPeriod

\* `await self.ws.send_str(data)` begins: the socket takes the frame, or refuses
\* it when it is closed
WriteBegin(t, f, r, rest) ==
  IF sockOpen
    THEN /\ wire' = Append(wire, f)
         /\ nhInPeriod' = PeriodFrames(f)
         /\ ackDue' = (ackDue \/ f.op = "HEARTBEAT")
         /\ lockQ' = <<t>> \o rest
         /\ pc' = [pc EXCEPT ![t] = "s_write"]
         /\ wframe' = [wframe EXCEPT ![t] = f]
         /\ wsock' = [wsock EXCEPT ![t] = ws]
         /\ ret' = [ret EXCEPT ![t] = r]
         /\ UNCHANGED <<exc, closeGateway>>
    ELSE /\ Raises(t, "WriteError", rest)
         /\ UNCHANGED <<wire, nhInPeriod, ackDue>>

\* the session object exists and __aenter__ has not been called yet
BeforeOpen == pc["rx"] = "o_start"

\* what the session had been through when a send() found no socket
FoundAt == IF BeforeOpen THEN "unopened" ELSE lastRc

\* variant: a send() that does not look at the socket before it uses it
NeverAbsent == FALSE

\* send(): `if self.ws is None`
SocketAbsent == ws = Null

\* send(), from `async with self._race_lock` on, for a task that has the lock;
\* rest are the tasks waiting behind it.
SendEnter(t, f, r, rest) ==
  IF SocketAbsent
    THEN \* `if self.ws is None: raise RuntimeError`
         /\ Raises(t, "NoSocket", rest)
         /\ sendFound' = FoundAt
         /\ UNCHANGED <<wire, nhInPeriod, ackDue, tokens>>
    ELSE IF Bypass(f)
      THEN /\ WriteBegin(t, f, r, rest)
           /\ UNCHANGED <<sendFound, tokens>>
      ELSE IF TokenFree
        THEN \* `await self.rl_manager.rate_limit()` takes the token without suspending
             /\ tokens' = tokens - 1
             /\ WriteBegin(t, f, r, rest)
             /\ UNCHANGED sendFound
        ELSE \* rate_limit() sleeps until the token is back
           /\ lockQ' = <<t>> \o rest
           /\ pc' = [pc EXCEPT ![t] = "s_rl"]
           /\ wframe' = [wframe EXCEPT ![t] = f]
           /\ ret' = [ret EXCEPT ![t] = r]
           /\ UNCHANGED <<wsock, exc, closeGateway, wire, nhInPeriod, ackDue, sendFound, tokens>>

\* variant: a lock that wakes its latest waiter first
JumpQueue(q, t) == <<Head(q), t>> \o Tail(q)

\* asyncio.Lock.acquire on a taken lock: the caller waits behind the earlier ones
Enqueue(q, t) == Append(q, t)

\* a call of send(): an asyncio.Lock that is free is taken without suspending
Send(t, f, r, q) ==
  IF LockFree(q)
    THEN SendEnter(t, f, r, <<>>)
    ELSE /\ lockQ' = Enqueue(q, t)
         /\ pc' = [pc EXCEPT ![t] = "s_lock"]
         /\ ret' = [ret EXCEPT ![t] = r]
         /\ wframe' = [wframe EXCEPT ![t] = f]
         /\ UNCHANGED <<wsock, exc, closeGateway, wire, nhInPeriod, ackDue, sendFound, tokens>>

\* a task waiting for the lock in send() gets it
SendAcquire(t) ==
  /\ pc[t] = "s_lock" /\ Holds(t)
  /\ SendEnter(t, wframe[t], ret[t], Tail(lockQ))
  /\ UNCHANGED <<rcOnly, outside>>

\* rate_limit() wakes up and takes the token, `await self.ws.send_str(data)` begins
SendRateLimited(t) ==
  /\ pc[t] = "s_rl" /\ TokenFree
  /\ tokens' = tokens - 1
  /\ IF ws = Null
       THEN /\ Raises(t, "AttributeError", Release)
            /\ UNCHANGED <<wire, nhInPeriod, ackDue>>
       ELSE WriteBegin(t, wframe[t], ret[t], Release)
  /\ UNCHANGED <<sendFound, rcOnly, outside>>

\* one refill period of the rate limiter has passed
RlRefill ==
  /\ tokens = 0 \/ nhInPeriod > 0
  /\ tokens' = 1
  /\ nhInPeriod' = 0
  /\ UNCHANGED <<pc, ret, lockQ, exc, wframe, wsock, closeGateway, wire, ackDue, sendFound,
                 rcOnly, outside>>

\* a socket write returns normally if its socket is still the connected one
Lands(t) == wsock[t] = ws /\ sockOpen

\* `await self.ws.send_str(data)` returns or raises; the lock is released
SendDone(t) ==
  /\ pc[t] = "s_write"
  /\ IF Lands(t)
       THEN /\ lockQ' = Release
            /\ pc' = [pc EXCEPT ![t] = AfterSendPc(t)]
            /\ exc' = [exc EXCEPT ![t] = AfterSendExc(t)]
            /\ ret' = [ret EXCEPT ![t] = "none"]
            /\ wframe' = [wframe EXCEPT ![t] = NoFrame]
            /\ wsock' = [wsock EXCEPT ![t] = Null]
            /\ UNCHANGED closeGateway
       ELSE Raises(t, "WriteError", Release)
  /\ UNCHANGED <<wire, nhInPeriod, ackDue, sendFound, tokens, rcOnly, outside>>

\* ------------------------------------------------------------- reconnect()
\* ws.close() called while the run loop's receive() is pending on the socket:
\* the pending receive() returns CLOSING (main: `await self._closed.wait()`,
\* voice, forced: RuntimeError)
PcOnLocalClose(p, t) ==
  IF t # "rx" /\ p["rx"] = "r_read"
    THEN [p EXCEPT !["rx"] = IF Forced THEN "x_start" ELSE "r_wait"]
    ELSE p
ExcOnLocalClose(e, t) ==
  IF t # "rx" /\ pc["rx"] = "r_read" /\ Forced
    THEN [e EXCEPT !["rx"] = "ForceClose"]
    ELSE e

\* VoiceGateway.reconnect: `if not resume: await wait_for(self._voice_server_update.wait(), 5)`
WaitsForServerUpdate(resume) == kind = "voice" /\ ~resume

\* after `self.ws = None`: the voice session waits for the server update unless
\* the event is already set (then it is cleared); otherwise websocket_connect begins
AfterClosePc(resume) ==
  IF WaitsForServerUpdate(resume) /\ ~vsu THEN "rc_vsu" ELSE "rc_connect"
AfterCloseVsu(resume) ==
  IF WaitsForServerUpdate(resume) THEN FALSE ELSE vsu

\* reconnect(), from `async with self._race_lock` on, for a task that has the lock:
\* `self._closed.clear()`, then `await self.ws.close(code=code)` if there is a socket
RcEnter(t, resume, code, rest, so, sid, sq) ==
  /\ lockQ' = <<t>> \o rest
  /\ closed' = FALSE
  /\ lastRc' = "running"
  /\ rcSnapSid' = sid /\ rcSnapSeq' = sq
  /\ IF ws # Null
       THEN /\ sockOpen' = FALSE
            /\ closeCode' = code
            /\ pc' = PcOnLocalClose([pc EXCEPT ![t] = "rc_close"], t)
            /\ exc' = ExcOnLocalClose(exc, t)
            /\ UNCHANGED vsu
       ELSE /\ sockOpen' = so
            /\ pc' = [pc EXCEPT ![t] = AfterClosePc(resume)]
            /\ vsu' = AfterCloseVsu(resume)
            /\ UNCHANGED <<exc, closeCode>>

\* a call of reconnect(resume, code) that returns to r
Reconnect(t, resume, code, r, so, sid, sq) ==
  /\ ret' = [ret EXCEPT ![t] = r]
  /\ rcResume' = [rcResume EXCEPT ![t] = resume]
  /\ rcCode' = [rcCode EXCEPT ![t] = code]
  /\ rcSeen' = [rcSeen EXCEPT ![t] = gen]
  /\ IF LockFree(lockQ)
       THEN RcEnter(t, resume, code, <<>>, so, sid, sq)
       ELSE /\ lockQ' = Append(lockQ, t)
            /\ pc' = [pc EXCEPT ![t] = "rc_lock"]
            /\ sockOpen' = so
            /\ UNCHANGED <<closed, closeCode, lastRc, rcSnapSid, rcSnapSeq, exc, vsu>>

\* a task waiting for the lock in reconnect() gets it
RcAcquire(t) ==
  /\ pc[t] = "rc_lock" /\ Holds(t)
  /\ RcEnter(t, rcResume[t], rcCode[t], Tail(lockQ), sockOpen, session_id, sequence)
  /\ UNCHANGED <<ret, rcResume, rcCode, rcSeen, sendOnly, outside>>

\* `await self.ws.close(code=code)` returns: `self.ws = None`, fresh zlib context
RcClosed(t) ==
  /\ pc[t] = "rc_close"
  /\ ws' = Null
  /\ pc' = [pc EXCEPT ![t] = AfterClosePc(rcResume[t])]
  /\ vsu' = AfterCloseVsu(rcResume[t])
  /\ UNCHANGED <<kind, ret, lockQ, exc, sendOnly, rcResume, rcCode, rcSeen, closed,
                 sockOpen, closeCode, lastRc, rcSnapSid, rcSnapSeq, acknowledged, killBeeGees,
                 keepAlive, entered, sequence, session_id, msg, pendingEv, excCode,
                 lastResp, counters, srvSeq, hbHist, sockBy, otherVars>>

\* VoiceGateway.reconnect: the awaited voice_server_update arrives
RcServerUpdate(t) ==
  /\ pc[t] = "rc_vsu" /\ vsu
  /\ vsu' = FALSE
  /\ pc' = [pc EXCEPT ![t] = "rc_connect"]
  /\ UNCHANGED <<ret, lockQ, exc, sendOnly, rcResume, rcCode, rcSeen, closed, sockOpen, closeCode,
                 lastRc, rcSnapSid, rcSnapSeq, outside>>

\* the bookkeeping of t's reconnect() call ends with the call
RcLeaves(t) ==
  /\ rcResume' = [rcResume EXCEPT ![t] = FALSE]
  /\ rcCode' = [rcCode EXCEPT ![t] = DefaultCloseCode]
  /\ rcSeen' = [rcSeen EXCEPT ![t] = 0]
  /\ rcSnapSid' = Null /\ rcSnapSeq' = Null
  /\ msg' = IF t = "rx" THEN NoMsg ELSE msg
  /\ lastResp' = IF t = "rx" THEN NoResp ELSE lastResp

\* Where a task continues when reconnect() returns normally: the receive loop
\* and the run loop go on to the next receive. (The heartbeater goes on to send
\* its heartbeat, see RcDone.)
AfterRcPc(t, c, w) == IF t = "rx" THEN RecvTopPc(c, w) ELSE "hb_sleep"
AfterRcExc(t, c, w) == IF t = "rx" THEN RecvTopExc(c, w) ELSE "none"

\* variant: a reconnect that goes on to connect after the timeout
TimeoutConnects(t, c, w) == "rc_connect"
\* `return` in the TimeoutError handler: reconnect() is over, the caller goes on
AfterTimeoutPc(t, c, w) == AfterRcPc(t, c, w)

\* VoiceGateway.reconnect: asyncio.TimeoutError: kill the heartbeater, close(), return
RcTimeout(t) ==
  /\ pc[t] = "rc_vsu" /\ ~vsu
  /\ killBeeGees' = TRUE
  /\ closeGateway' = TRUE
  /\ lockQ' = Release
  /\ lastRc' = "timeout"
  /\ pc' = [pc EXCEPT ![t] = AfterTimeoutPc(t, closed, ws)]
  /\ exc' = [exc EXCEPT ![t] = AfterRcExc(t, closed, ws)]
  /\ ret' = [ret EXCEPT ![t] = "none"]
  /\ RcLeaves(t)
  /\ UNCHANGED <<kind, wframe, wsock, wire, nhInPeriod, ackDue, sendFound, tokens, closed, sockOpen, closeCode, vsu, ws,
                 acknowledged, keepAlive, entered, sequence, session_id, pendingEv,
                 excCode, counters, srvSeq, hbHist, sockBy, otherVars>>

\* `self.ws = await self.state.client.http.websocket_connect(self.ws_url)` returns;
\* `await self.receive(force=True)` begins
RcConnected(t) ==
  /\ pc[t] = "rc_connect" /\ gen < MaxSockets
  /\ ws' = gen + 1 /\ gen' = gen + 1
  /\ sockOpen' = TRUE /\ closeCode' = 0
  /\ wire' = <<>> /\ ackDue' = FALSE
  /\ sockBy' = "none"
  /\ pc' = [pc EXCEPT ![t] = "rc_hello"]
  /\ UNCHANGED <<kind, ret, lockQ, exc, wframe, wsock, closeGateway, nhInPeriod, sendFound,
                 tokens, rcResume, rcCode, rcSeen, closed, lastRc, rcSnapSid, rcSnapSeq, vsu, acknowledged,
                 killBeeGees, keepAlive, entered, sequence, session_id, msg, pendingEv,
                 excCode, lastResp, ticks, frames, sends, srvSeq, hbHist, otherVars>>

\* an exception leaves reconnect(): the lock is released by `async with`
RcRaise(t, e) ==
  /\ Raises(t, e, Release)
  /\ lastRc' = "failed"
  /\ RcLeaves(t)

\* websocket_connect raises, or the forced receive of HELLO raises
RcFail(t) ==
  /\ pc[t] \in {"rc_connect", "rc_hello"}
  /\ RcRaise(t, "ConnectError")
  /\ UNCHANGED <<kind, wire, nhInPeriod, ackDue, sendFound, tokens, closed, sockOpen, closeCode, vsu, ws, acknowledged,
                 killBeeGees, keepAlive, entered, sequence, session_id, pendingEv,
                 excCode, counters, srvSeq, hbHist, sockBy, otherVars>>

\* VoiceGateway.receive: `if resp.data == 4014: ... await self.reconnect()`
VoiceCloseReconnects(code) == code = VoiceDisconnected

\* variant: a voice receive that raises on every close frame when forced
ForcedNeverReconnects(code) == FALSE

\* the forced receive of HELLO returns a CLOSE frame that VoiceGateway.receive
\* answers with `self.ready.clear()`, `await self.reconnect()`, force or not:
\* the task asks for _race_lock, which it holds itself, and waits
ForcedCloseReconnects(code) == kind = "voice" /\ VoiceCloseReconnects(code)

RcHelloClose(t) ==
  /\ pc[t] = "rc_hello" /\ sockOpen
  /\ frames < MaxFrames
  /\ frames' = frames + 1
  /\ \E code \in CloseCodes :
       /\ ForcedCloseReconnects(code)
       /\ lastResp' = [type |-> "CLOSE", code |-> code]
  /\ sockOpen' = FALSE
  /\ lockQ' = Append(lockQ, t)
  /\ pc' = [pc EXCEPT ![t] = "rc_self"]
  /\ UNCHANGED <<kind, ret, exc, sendOnly, rcResume, rcCode, rcSeen, closed, closeCode,
                 lastRc, rcSnapSid, rcSnapSeq, vsu, ws, acknowledged, killBeeGees,
                 keepAlive, entered, sequence, session_id, msg, pendingEv, excCode,
                 ticks, sends, gen, srvSeq, hbHist, sockBy, otherVars>>

\* VoiceGateway._resume_connection: `raise NotImplementedError`
ResumeImplemented == kind = "main"

\* variant: a reconnect that identifies whatever the resume flag
AlwaysIdentify(resume) == IdentifyFrame

\* the first frame of a reconnect: `if not resume: await self._identify()`,
\* `else: await self._resume_connection()`
HandshakeFrame(resume) == IF resume THEN ResumeFrame ELSE IdentifyFrame

\* HELLO received; the IDENTIFY / RESUME write begins
RcHello(t) ==
  /\ pc[t] = "rc_hello"
  /\ IF rcResume[t] /\ ~ResumeImplemented
       THEN /\ RcRaise(t, "NotImplementedError")
            /\ UNCHANGED <<wire, nhInPeriod, sockBy, srvSeq>>
       ELSE /\ wire' = Append(wire, HandshakeFrame(rcResume[t]))
            /\ nhInPeriod' = PeriodFrames(HandshakeFrame(rcResume[t]))
            /\ sockBy' = IF rcResume[t] THEN "resume" ELSE "identify"
            /\ srvSeq' = IF rcResume[t] THEN srvSeq ELSE 0
            /\ pc' = [pc EXCEPT ![t] = "rc_ident"]
            /\ wframe' = [wframe EXCEPT ![t] = HandshakeFrame(rcResume[t])]
            /\ wsock' = [wsock EXCEPT ![t] = ws]
            /\ UNCHANGED <<lockQ, lastRc, exc, closeGateway, ret, msg, lastResp,
                           rcResume, rcCode, rcSeen, rcSnapSid, rcSnapSeq>>
  /\ UNCHANGED <<kind, ackDue, sendFound, tokens, closed, sockOpen, closeCode, vsu, ws, acknowledged,
                 killBeeGees, keepAlive, entered, sequence, session_id, pendingEv,
                 excCode, counters, hbHist, otherVars>>

\* the IDENTIFY / RESUME write returns: `self._closed.set()`, `self._acknowledged.set()`,
\* the lock is released and reconnect() returns. The heartbeater then runs on
\* without suspending: `self._acknowledged.clear()`, `await self.send_heartbeat()`.
RcDone(t) ==
  /\ pc[t] = "rc_ident"
  /\ IF Lands(t)
       THEN /\ closed' = TRUE
            /\ lastRc' = "completed"
            /\ hbReconnected' = (hbReconnected \/ (t = "hb" /\ rcResume[t]))
            /\ RcLeaves(t)
            /\ IF t = "hb"
                 THEN /\ acknowledged' = FALSE
                      /\ Send(t, HeartbeatFrame, "sleep", Release)
                 ELSE /\ acknowledged' = TRUE
                      /\ lockQ' = Release
                      /\ pc' = [pc EXCEPT ![t] = AfterRcPc(t, TRUE, ws)]
                      /\ exc' = [exc EXCEPT ![t] = AfterRcExc(t, TRUE, ws)]
                      /\ ret' = [ret EXCEPT ![t] = "none"]
                      /\ wframe' = [wframe EXCEPT ![t] = NoFrame]
                      /\ wsock' = [wsock EXCEPT ![t] = Null]
                      /\ UNCHANGED <<closeGateway, wire, nhInPeriod, ackDue, sendFound, tokens>>
       ELSE /\ RcRaise(t, "WriteError")
            /\ UNCHANGED <<closed, hbReconnected, acknowledged, wire, nhInPeriod, ackDue, sendFound, tokens>>
  /\ UNCHANGED <<kind, sockOpen, closeCode, vsu, ws, killBeeGees, keepAlive, entered, sequence,
                 session_id, pendingEv, excCode, counters, srvSeq, tickSawPending,
                 sockBy, otherVars>>

\* ------------------------------------------------------------- heartbeater
\* one cycle of `while not self._kill_bee_gees.is_set()` in _start_bee_gees
HbCycle ==
  /\ tickSawPending' = ~acknowledged
  /\ hbReconnected' = FALSE
  /\ IF HbNeedsReconnect
       THEN /\ Reconnect("hb", TRUE, DefaultCloseCode, "beat", sockOpen, session_id, sequence)
            /\ UNCHANGED <<acknowledged, sendOnly>>
       ELSE /\ acknowledged' = FALSE
            /\ Send("hb", HeartbeatFrame, "sleep", lockQ)
            /\ UNCHANGED rcOnly

\* the task created in __aenter__ runs for the first time
HbStart ==
  /\ pc["hb"] = "hb_top"
  /\ IF killBeeGees
       THEN /\ pc' = [pc EXCEPT !["hb"] = "hb_end"]
            /\ UNCHANGED <<ret, lockQ, exc, sendOnly, rcOnly, acknowledged, hbHist>>
       ELSE HbCycle
  /\ UNCHANGED <<kind, ws, killBeeGees, keepAlive, entered, sequence, session_id, msg,
                 pendingEv, excCode, lastResp, counters, srvSeq, sockBy, otherVars>>

\* `wait_for(self._kill_bee_gees.wait(), timeout=self.heartbeat_interval)` times out
HbTick ==
  /\ pc["hb"] = "hb_sleep" /\ ~killBeeGees
  /\ ticks < MaxTicks
  /\ ticks' = ticks + 1
  /\ HbCycle
  /\ UNCHANGED <<kind, ws, killBeeGees, keepAlive, entered, sequence, session_id, msg,
                 pendingEv, excCode, lastResp, frames, sends, gen, srvSeq, sockBy,
                 otherVars>>

\* the kill event is set while the heartbeater waits: `else: return`
HbKilled ==
  /\ pc["hb"] = "hb_sleep" /\ killBeeGees
  /\ pc' = [pc EXCEPT !["hb"] = "hb_end"]
  /\ UNCHANGED <<ret, lockQ, exc, sendOnly, rcOnly, outside>>

\* ------------------------------------------------------------ __aenter__
\* variant: a session that does not remember that it was entered
NeverEntered == FALSE

\* `if self._entered: raise RuntimeError("An instance of 'WebsocketClient' cannot be re-used!")`
Reused == entered

\* where the application can call __aenter__: on a new session object, after
\* an __aenter__ that raised, and after __aexit__
EnterPcs == {"o_start", "o_failed", "o_refused", "x_done", "x_refused"}

\* where the caller is once __aenter__ has raised the re-use error
RefusedPc(p) == IF p \in {"x_done", "x_refused"} THEN "x_refused" ELSE "o_refused"

\* a call of __aenter__: the re-use check, then `self._entered = True`, a new
\* zlib context, and websocket_connect begins
OpenStart ==
  /\ pc["rx"] \in EnterPcs
  /\ IF Reused
       THEN /\ pc' = [pc EXCEPT !["rx"] = RefusedPc(pc["rx"])]
            /\ UNCHANGED entered
       ELSE /\ entered' = TRUE
            /\ pc' = [pc EXCEPT !["rx"] = "o_connect"]
  /\ UNCHANGED <<kind, ret, lockQ, exc, sendOnly, rcOnly, ws, acknowledged, killBeeGees,
                 keepAlive, sequence, session_id, msg, pendingEv, excCode, lastResp,
                 counters, srvSeq, hbHist, sockBy, otherVars>>

\* `self.ws = await ...websocket_connect(...)` returns; the forced receive of HELLO begins
OpenConnected ==
  /\ pc["rx"] = "o_connect" /\ gen < MaxSockets
  /\ ws' = gen + 1 /\ gen' = gen + 1
  /\ sockOpen' = TRUE /\ closeCode' = 0
  /\ pc' = [pc EXCEPT !["rx"] = "o_hello"]
  /\ UNCHANGED <<kind, ret, lockQ, exc, sendOnly, rcResume, rcCode, rcSeen, closed,
                 lastRc, rcSnapSid, rcSnapSeq, vsu, acknowledged, killBeeGees, keepAlive,
                 entered, sequence, session_id, msg, pendingEv, excCode, lastResp, ticks,
                 frames, sends, srvSeq, hbHist, sockBy, otherVars>>

\* websocket_connect or the forced receive raises: __aenter__ fails
OpenFail ==
  /\ pc["rx"] \in {"o_connect", "o_hello"}
  /\ pc' = [pc EXCEPT !["rx"] = "o_failed"]
  /\ exc' = [exc EXCEPT !["rx"] = "ConnectError"]
  /\ UNCHANGED <<ret, lockQ, sendOnly, rcOnly, outside>>

\* variant: an open() whose IDENTIFY does not reach the socket
NoWrite(w) == w

\* _identify: `await self.ws.send_str(serialized)` hands IDENTIFY to the socket
IdentifyWrite(w) == Append(w, IdentifyFrame)

\* HELLO received: `self._closed.set()`, the heartbeater task is created,
\* `await self._identify()` begins its socket write
OpenHello ==
  /\ pc["rx"] = "o_hello"
  /\ closed' = TRUE
  /\ keepAlive' = TRUE
  /\ pc' = [pc EXCEPT !["rx"] = "o_ident", !["hb"] = "hb_top"]
  /\ wire' = IdentifyWrite(wire)
  /\ nhInPeriod' = PeriodFrames(IdentifyFrame)
  /\ sockBy' = "open"
  /\ wframe' = [wframe EXCEPT !["rx"] = IdentifyFrame]
  /\ wsock' = [wsock EXCEPT !["rx"] = ws]
  /\ UNCHANGED <<kind, ret, lockQ, exc, closeGateway, ackDue, sendFound, tokens, rcResume, rcCode,
                 rcSeen, sockOpen, closeCode, lastRc, rcSnapSid, rcSnapSeq, vsu, ws, acknowledged,
                 killBeeGees, entered, sequence, session_id, msg, pendingEv, excCode,
                 lastResp, counters, srvSeq, hbHist, otherVars>>

\* the IDENTIFY write of __aenter__ returns or raises; run() begins
OpenIdentified ==
  /\ pc["rx"] = "o_ident"
  /\ wframe' = [wframe EXCEPT !["rx"] = NoFrame]
  /\ wsock' = [wsock EXCEPT !["rx"] = Null]
  /\ IF Lands("rx")
       THEN /\ pc' = [pc EXCEPT !["rx"] = RecvTopPc(closed, ws)]
            /\ exc' = [exc EXCEPT !["rx"] = RecvTopExc(closed, ws)]
       ELSE /\ pc' = [pc EXCEPT !["rx"] = "o_failed"]
            /\ exc' = [exc EXCEPT !["rx"] = "WriteError"]
  /\ UNCHANGED <<ret, lockQ, closeGateway, wire, nhInPeriod, ackDue, sendFound, tokens, rcOnly, outside>>

\* ---------------------------------------------------------------- receive()
\* variant: an event loop that may run a spawned handler after tasks created later
HandlersAnyTime == TRUE

\* run() spawns a handler with create_task and creates the next receive task
\* after it: the event loop runs ready tasks in the order they were scheduled,
\* and dispatch_event has no await on the READY path, so by the time the
\* receive task takes a step every handler spawned before it has run
HandlersRan == pendingEv = <<>>

\* `await self._closed.wait()` returns, `await self.ws.receive()` begins
RxWake ==
  /\ pc["rx"] = "r_wait" /\ closed /\ HandlersRan
  /\ pc' = [pc EXCEPT !["rx"] = RecvTopPc(closed, ws)]
  /\ exc' = [exc EXCEPT !["rx"] = RecvTopExc(closed, ws)]
  /\ lastResp' = NoResp
  /\ UNCHANGED <<kind, ret, lockQ, sendOnly, rcOnly, ws, acknowledged, killBeeGees,
                 keepAlive, entered, sequence, session_id, msg, pendingEv, excCode,
                 counters, srvSeq, hbHist, sockBy, otherVars>>

\* what the server may send to a running session
Identified == sockBy \in {"open", "identify"}
ServerMsgs ==
  (IF Identified /\ srvSeq = 0
     THEN {[op |-> "DISPATCH", d |-> FALSE, s |-> 1, t |-> "READY", sid |-> gen]}
     ELSE {})
  \cup (IF srvSeq >= 1
     THEN {[op |-> "DISPATCH", d |-> FALSE, s |-> srvSeq + 1, t |-> "OTHER", sid |-> Null]}
     ELSE {})
  \cup (IF ackDue
     THEN {[op |-> "HEARTBEAT_ACK", d |-> FALSE, s |-> 0, t |-> "none", sid |-> Null]}
     ELSE {})
  \cup (IF kind = "main"
     THEN {[op |-> o, d |-> b, s |-> 0, t |-> "none", sid |-> Null] :
             o \in {"INVALIDATE_SESSION"}, b \in BOOLEAN}
          \cup {[op |-> o, d |-> FALSE, s |-> 0, t |-> "none", sid |-> Null] :
             o \in {"HEARTBEAT", "RECONNECT"}}
     ELSE {})
  \cup {[op |-> "UNKNOWN", d |-> FALSE, s |-> 0, t |-> "none", sid |-> Null]}

\* ws.receive() returns a data frame, receive() decodes and returns it
RxData ==
  /\ pc["rx"] = "r_read" /\ sockOpen /\ HandlersRan
  /\ frames < MaxFrames
  /\ \E m \in ServerMsgs :
       /\ msg' = m
       /\ srvSeq' = IF m.s # 0 THEN m.s ELSE srvSeq
       /\ ackDue' = (ackDue /\ m.op # "HEARTBEAT_ACK")
  /\ frames' = frames + 1
  /\ pc' = [pc EXCEPT !["rx"] = "r_done"]
  /\ UNCHANGED <<kind, ret, lockQ, exc, wframe, wsock, closeGateway, wire, nhInPeriod, sendFound, tokens,
                 rcOnly, ws, acknowledged, killBeeGees, keepAlive, entered, sequence,
                 session_id, pendingEv, excCode, lastResp, ticks, sends, gen, hbHist,
                 sockBy, otherVars>>

\* receive() raises on what it read: the socket is closed, no reconnect is called
RxRaises(e) ==
  /\ pc' = [pc EXCEPT !["rx"] = "x_start"]
  /\ exc' = [exc EXCEPT !["rx"] = e]
  /\ sockOpen' = FALSE
  /\ UNCHANGED <<ret, lockQ, rcResume, rcCode, rcSeen, closed, closeCode, lastRc, rcSnapSid,
                 rcSnapSeq, vsu>>

\* ws.receive() returns the peer's CLOSE frame with a close code
RxClose ==
  /\ pc["rx"] = "r_read" /\ sockOpen /\ HandlersRan
  /\ frames < MaxFrames
  /\ frames' = frames + 1
  /\ \E code \in CloseCodes :
       /\ lastResp' = [type |-> "CLOSE", code |-> code]
       /\ IF kind = "main"
            THEN IF CloseIsFatal(code)
                   THEN /\ RxRaises("WebSocketClosed")
                        /\ excCode' = code
                   ELSE /\ Reconnect("rx", CloseResume(code), code, "recv", FALSE,
                                     session_id, sequence)
                        /\ UNCHANGED excCode
            ELSE IF VoiceCloseReconnects(code)
                   THEN /\ Reconnect("rx", FALSE, DefaultCloseCode, "recv", FALSE,
                                     session_id, sequence)
                        /\ UNCHANGED excCode
                   ELSE /\ RxRaises("VoiceWebSocketClosed")
                        /\ excCode' = code
  /\ UNCHANGED <<kind, sendOnly, ws, acknowledged, killBeeGees, keepAlive, entered,
                 sequence, session_id, msg, pendingEv, ticks, sends, gen, srvSeq, hbHist,
                 sockBy, otherVars>>

\* ws.receive() returns CLOSED: the socket was closed without a closing handshake,
\* or receive() was called on a socket that is already closed
RxClosed ==
  /\ pc["rx"] = "r_read" /\ HandlersRan
  /\ sockOpen => frames < MaxFrames
  /\ frames' = IF sockOpen THEN frames + 1 ELSE frames
  /\ lastResp' = [type |-> "CLOSED", code |-> 0]
  /\ IF Forced
       THEN RxRaises("ForceClose")
       ELSE IF ~closed
              THEN /\ pc' = [pc EXCEPT !["rx"] = "r_wait"]
                   /\ sockOpen' = FALSE
                   /\ UNCHANGED <<ret, lockQ, exc, rcResume, rcCode, rcSeen, closed, closeCode,
                                  lastRc, rcSnapSid, rcSnapSeq, vsu>>
              ELSE Reconnect("rx", TRUE, DefaultCloseCode, "recv", FALSE, session_id, sequence)
  /\ UNCHANGED <<kind, sendOnly, ws, acknowledged, killBeeGees, keepAlive, entered,
                 sequence, session_id, msg, pendingEv, excCode, ticks, sends, gen, srvSeq,
                 hbHist, sockBy, otherVars>>

\* -------------------------------------------------------------------- run()
\* run() resumes with the received message: `if seq: self.sequence = seq`, then
\* the opcode is routed. One action per branch of run() / dispatch_opcode.
Handles(o) == pc["rx"] = "r_done" /\ msg.op = o

runRest == <<kind, ws, killBeeGees, keepAlive, entered, excCode, lastResp, counters,
             srvSeq, hbHist, sockBy, otherVars>>
noCall == <<ret, lockQ, sendOnly, rcOnly>>

\* back to the top of run(): the next receive() begins
RunLoops ==
  /\ pc' = [pc EXCEPT !["rx"] = RecvTopPc(closed, ws)]
  /\ exc' = [exc EXCEPT !["rx"] = RecvTopExc(closed, ws)]
  /\ msg' = NoMsg

\* DISPATCH: `asyncio.create_task(self.dispatch_event(data, seq, event))`; of the
\* spawned handlers only READY's changes the session
RxDispatch ==
  /\ Handles("DISPATCH")
  /\ sequence' = SeqAfter(msg)
  /\ pendingEv' = IF msg.t = "READY" /\ kind = "main" THEN Append(pendingEv, msg) ELSE pendingEv
  /\ RunLoops
  /\ UNCHANGED <<session_id, acknowledged>>
  /\ UNCHANGED noCall /\ UNCHANGED runRest

\* HEARTBEAT (main gateway): `return await self.send_heartbeat()`
RxOpHeartbeat ==
  /\ Handles("HEARTBEAT") /\ kind = "main"
  /\ sequence' = SeqAfter(msg)
  /\ Send("rx", HeartbeatFrame, "run", lockQ)
  /\ msg' = NoMsg
  /\ UNCHANGED <<session_id, acknowledged, pendingEv, rcOnly>>
  /\ UNCHANGED runRest

\* HEARTBEAT_ACK: latency bookkeeping, `self._acknowledged.set()`
RxOpAck ==
  /\ Handles("HEARTBEAT_ACK")
  /\ sequence' = SeqAfter(msg)
  /\ acknowledged' = TRUE
  /\ RunLoops
  /\ UNCHANGED <<session_id, pendingEv>>
  /\ UNCHANGED noCall /\ UNCHANGED runRest

\* RECONNECT (main gateway): `return await self.reconnect(resume=True)`
RxOpReconnect ==
  /\ Handles("RECONNECT") /\ kind = "main"
  /\ sequence' = SeqAfter(msg)
  /\ Reconnect("rx", TRUE, DefaultCloseCode, "run", sockOpen, session_id, SeqAfter(msg))
  /\ UNCHANGED <<session_id, acknowledged, pendingEv, msg, sendOnly>>
  /\ UNCHANGED runRest

\* INVALIDATE_SESSION (main gateway): `return await self.reconnect(resume=data)`
RxOpInvalidate ==
  /\ Handles("INVALIDATE_SESSION") /\ kind = "main"
  /\ sequence' = InvalidateSequence(msg.d)
  /\ session_id' = InvalidateSessionId(msg.d)
  /\ Reconnect("rx", msg.d, DefaultCloseCode, "run", sockOpen,
               InvalidateSessionId(msg.d), InvalidateSequence(msg.d))
  /\ UNCHANGED <<acknowledged, pendingEv, msg, sendOnly>>
  /\ UNCHANGED runRest

\* any other opcode: logged
RxOpOther ==
  /\ pc["rx"] = "r_done"
  /\ \/ msg.op = "UNKNOWN"
     \/ kind = "voice" /\ msg.op \in {"HEARTBEAT", "RECONNECT", "INVALIDATE_SESSION"}
  /\ sequence' = SeqAfter(msg)
  /\ RunLoops
  /\ UNCHANGED <<session_id, acknowledged, pendingEv>>
  /\ UNCHANGED noCall /\ UNCHANGED runRest

\* a spawned dispatch_event task runs: READY stores sequence and session_id
DispatchEvent ==
  /\ pendingEv # <<>>
  /\ sequence' = Head(pendingEv).s
  /\ session_id' = Head(pendingEv).sid
  /\ pendingEv' = Tail(pendingEv)
  /\ UNCHANGED <<kind, pc, ret, lockQ, exc, sendOnly, rcOnly, ws, acknowledged,
                 killBeeGees, keepAlive, entered, msg, excCode, lastResp, counters,
                 srvSeq, hbHist, sockBy, otherVars>>

\* the receive task of run() is suspended (it has not completed)
RcPcs == {"rc_lock", "rc_close", "rc_vsu", "rc_connect", "rc_hello", "rc_ident", "rc_self"}
RcRunning(t) == pc[t] \in RcPcs \ {"rc_lock"}
\* variant: a run loop that checks the stopping task first
ReceivingOrDone ==
  \/ pc["rx"] \in {"r_wait", "r_read", "r_done"}
  \/ pc["rx"] \in RcPcs /\ ret["rx"] = "recv"

\* variant: a run loop whose wait never sees the receive as pending
NeverReceiving == FALSE

Receiving ==
  \/ pc["rx"] \in {"r_wait", "r_read"}
  \/ pc["rx"] \in RcPcs /\ ret["rx"] = "recv"

\* a cancelled task is unwound from the await it is suspended in: the lock, or
\* its place in the lock's queue, is given up by `async with`
Unwinds(t) ==
  /\ lockQ' = Without(lockQ, t)
  /\ ret' = [ret EXCEPT ![t] = "none"]
  /\ wframe' = [wframe EXCEPT ![t] = NoFrame]
  /\ wsock' = [wsock EXCEPT ![t] = Null]
  /\ rcResume' = [rcResume EXCEPT ![t] = FALSE]
  /\ rcCode' = [rcCode EXCEPT ![t] = DefaultCloseCode]
  /\ rcSeen' = [rcSeen EXCEPT ![t] = 0]
  /\ IF RcRunning(t)
       THEN lastRc' = "failed" /\ rcSnapSid' = Null /\ rcSnapSeq' = Null
       ELSE UNCHANGED <<lastRc, rcSnapSid, rcSnapSeq>>

\* run(): the stopping task completed and the receiving task did not:
\* `receiving.cancel()`, `return`; __aexit__ follows
RunStop ==
  /\ closeGateway /\ Receiving
  /\ pc' = [pc EXCEPT !["rx"] = "x_start"]
  /\ Unwinds("rx")
  /\ lastResp' = NoResp
  /\ UNCHANGED <<kind, exc, closeGateway, wire, nhInPeriod, ackDue, sendFound, tokens, closed,
                 sockOpen, closeCode, vsu, ws, acknowledged, killBeeGees, keepAlive, entered,
                 sequence, session_id, msg, pendingEv, excCode, counters, srvSeq, hbHist,
                 sockBy, otherVars>>

\* where the task of run() can be suspended
RunPcs == {"r_wait", "r_read", "r_done", "s_lock", "s_rl", "s_write"} \cup RcPcs

\* the task that runs the session is cancelled inside run(): CancelledError
\* leaves the with-block and __aexit__ follows
RunCancelled ==
  /\ pc["rx"] \in RunPcs
  /\ pc' = [pc EXCEPT !["rx"] = "x_start"]
  /\ exc' = [exc EXCEPT !["rx"] = "CancelledError"]
  /\ Unwinds("rx")
  /\ lastResp' = NoResp /\ msg' = NoMsg
  /\ UNCHANGED <<kind, closeGateway, wire, nhInPeriod, ackDue, sendFound, tokens, closed,
                 sockOpen, closeCode, vsu, ws, acknowledged, killBeeGees, keepAlive, entered,
                 sequence, session_id, pendingEv, excCode, counters, srvSeq, hbHist,
                 sockBy, otherVars>>

\* ---------------------------------------------------------------- __aexit__
\* `self._close_gateway.set()`; `self._kill_bee_gees.set()`, `await self._keep_alive`
ExitStart ==
  /\ pc["rx"] = "x_start"
  /\ closeGateway' = TRUE
  /\ killBeeGees' = (killBeeGees \/ keepAlive)
  /\ pc' = [pc EXCEPT !["rx"] = "x_join"]
  /\ UNCHANGED <<kind, ret, lockQ, exc, wframe, wsock, wire, nhInPeriod, ackDue, sendFound, tokens, rcOnly,
                 ws, acknowledged, keepAlive, entered, sequence, session_id, msg,
                 pendingEv, excCode, lastResp, counters, srvSeq, hbHist, sockBy, otherVars>>

\* variant: a teardown that does not wait for the heartbeater
NoJoin == TRUE

\* `await self._keep_alive` returns: the heartbeater task has finished
HbJoined == keepAlive => pc["hb"] = "hb_end"

\* the `finally` of __aexit__: `if self.ws is not None: await self.ws.close(code=1000)`
ExitClosePc == IF ws # Null THEN "x_close" ELSE "x_done"
ExitCloseCode == IF ws # Null THEN CleanClose ELSE closeCode

\* the heartbeater has finished: `self._keep_alive = None`, `await self.ws.close(code=1000)`
ExitJoined ==
  /\ pc["rx"] = "x_join"
  /\ HbJoined
  /\ keepAlive' = FALSE
  /\ pc' = [pc EXCEPT !["rx"] = ExitClosePc]
  /\ sockOpen' = FALSE /\ closeCode' = ExitCloseCode
  /\ UNCHANGED <<kind, ret, lockQ, exc, sendOnly, rcResume, rcCode, rcSeen, closed,
                 lastRc, rcSnapSid, rcSnapSeq, vsu, ws, acknowledged, killBeeGees,
                 entered, sequence, session_id, msg, pendingEv, excCode, lastResp,
                 counters, srvSeq, hbHist, sockBy, otherVars>>

\* the task is cancelled while __aexit__ awaits the heartbeater: the
\* cancellation is passed on to the heartbeater task, which is unwound and ends;
\* then the `finally` blocks of __aexit__ run
ExitCancelled ==
  /\ pc["rx"] = "x_join" /\ keepAlive /\ pc["hb"] # "hb_end"
  /\ keepAlive' = FALSE
  /\ pc' = [pc EXCEPT !["hb"] = "hb_end", !["rx"] = ExitClosePc]
  /\ exc' = [exc EXCEPT !["rx"] = "CancelledError"]
  /\ Unwinds("hb")
  /\ sockOpen' = FALSE /\ closeCode' = ExitCloseCode
  /\ UNCHANGED <<kind, closeGateway, wire, nhInPeriod, ackDue, sendFound, tokens, closed, vsu,
                 ws, acknowledged, killBeeGees, entered, sequence, session_id, msg,
                 pendingEv, excCode, lastResp, counters, srvSeq, hbHist, sockBy, otherVars>>

\* ws.close(code=1000) returns: `self.ws = None`
ExitClosed ==
  /\ pc["rx"] = "x_close"
  /\ ws' = Null
  /\ pc' = [pc EXCEPT !["rx"] = "x_done"]
  /\ UNCHANGED <<kind, ret, lockQ, exc, sendOnly, rcOnly, acknowledged, killBeeGees,
                 keepAlive, entered, sequence, session_id, msg, pendingEv, excCode,
                 lastResp, counters, srvSeq, hbHist, sockBy, otherVars>>

\* ------------------------------------------------- application, environment
\* __aenter__ has returned: the application holds the session
Entered == pc["rx"] \notin OpenPcs \cup {"o_failed", "o_refused"}

\* the application calls a sending operation (change_presence, ...): on the
\* session it holds, or on the object it has not opened yet
AppSend ==
  /\ pc["tx"] = "t_idle" /\ (Entered \/ BeforeOpen) /\ sends < MaxSends
  /\ sends' = sends + 1
  /\ Send("tx", AppFrame, "idle", lockQ)
  /\ UNCHANGED <<kind, rcOnly, ws, acknowledged, killBeeGees, keepAlive, entered,
                 sequence, session_id, msg, pendingEv, excCode, lastResp, ticks, frames,
                 gen, srvSeq, hbHist, sockBy, otherVars>>

\* close(): `self._close_gateway.set()`
Close ==
  /\ Entered /\ ~closeGateway
  /\ closeGateway' = TRUE
  /\ UNCHANGED <<pc, ret, lockQ, exc, wframe, wsock, wire, nhInPeriod, ackDue, sendFound, tokens, rcOnly,
                 outside>>

\* VoiceGateway.set_new_voice_server: `self._voice_server_update.set()`
SetNewVoiceServer ==
  /\ kind = "voice" /\ Entered /\ ~vsu
  /\ vsu' = TRUE
  /\ UNCHANGED <<pc, ret, lockQ, exc, sendOnly, rcResume, rcCode, rcSeen, closed,
                 sockOpen, closeCode, lastRc, rcSnapSid, rcSnapSeq, outside>>

\* ----------------------------------------------- supervisor (Snake._ws_connect)
\* what self.ws holds when a session ends, and what ends it
SessionIds == {Null, 1}
Sequences == {Null, 2}
WsStates == [session_id : SessionIds, sequence : Sequences]
Errnos == {ConnResetBSD, ConnResetWin, 104}
SupCloseCodes == {CleanClose, ShardingRequired, InvalidIntents, DisallowedIntents, FatalFloor}
Restarts == {[type |-> "WebSocketRestart", code |-> 0, resume |-> b] : b \in BOOLEAN}
Closures == {[type |-> "WebSocketClosed", code |-> c, resume |-> FALSE] : c \in SupCloseCodes}
NetworkErrors ==
  {[type |-> "OSError", code |-> n, resume |-> FALSE] : n \in Errnos}
  \cup {[type |-> ty, code |-> 0, resume |-> FALSE] :
          ty \in {"TimeoutError", "ClientError", "GatewayNotFound"}}
OtherErrors == {[type |-> "Exception", code |-> 0, resume |-> FALSE]}

\* `params.update(resume=True, session_id=self.ws.session_id, sequence=self.ws.sequence)`
ResumeParams(w) == [resume |-> TRUE, session_id |-> w.session_id, sequence |-> w.sequence]

\* variant: a restart that always starts afresh
RestartResets(e, w) == FreshParams

\* WebSocketRestart: `if ex.resume: params.update(resume=True, ...)`, else reset
RestartParams(e, w) == IF e.resume THEN ResumeParams(w) ELSE FreshParams

\* variant: every network error resumes
AlwaysResumable(e) == TRUE

\* `isinstance(ex, OSError) and ex.errno in (54, 10054)`
Resumable(e) == e.type = "OSError" /\ e.code \in {ConnResetBSD, ConnResetWin}

\* how _ws_connect ends on WebSocketClosed(code)
ClosedOutcome(c) ==
  IF c = CleanClose THEN "clean"
  ELSE IF c = ShardingRequired THEN "ShardingRequired"
  ELSE IF c = InvalidIntents THEN "InvalidIntents"
  ELSE IF c = DisallowedIntents THEN "DisallowedIntents"
  ELSE "WebSocketClosed"
\* variant: a closed socket is retried after the sleep
ClosedRetries(c) == "sleep"
ClosedPc(c) == IF c = CleanClose THEN "returned" ELSE "raised"

\* `continue` skips `await asyncio.sleep(randint(1, 5))`
AfterHandlerPc(resumes) == IF resumes THEN "top" ELSE "sleep"

SupInit ==
  /\ SessInit /\ kind = "main" /\ DecIdle /\ VoiIdle /\ EvIdle
  /\ supPc = "top"
  /\ params = FreshParams
  /\ supWs = [session_id |-> Null, sequence |-> Null]
  /\ supExc = NoExc
  /\ attempts = 0 /\ outcome = "none"

\* `while not self.is_closed`: `self.ws = await self.ws.connect(**params)`, `await self.ws.run()`
SupAttempt ==
  /\ supPc = "top" /\ attempts < MaxAttempts
  /\ attempts' = attempts + 1
  /\ supPc' = "session"
  /\ UNCHANGED <<params, supWs, supExc, outcome, sessVars, decVars, voiVars, evVars>>

\* `except WebSocketRestart as ex`
SupOnRestart ==
  /\ supPc = "session"
  /\ \E e \in Restarts, w \in WsStates :
       /\ supExc' = e /\ supWs' = w
       /\ params' = RestartParams(e, w)
       /\ supPc' = AfterHandlerPc(e.resume)
  /\ UNCHANGED <<attempts, outcome, sessVars, decVars, voiVars, evVars>>

\* `except (...) as ex` with `isinstance(ex, WebSocketClosed)`
SupOnClosed ==
  /\ supPc = "session"
  /\ \E e \in Closures, w \in WsStates :
       /\ supExc' = e /\ supWs' = w
       /\ outcome' = ClosedOutcome(e.code)
       /\ supPc' = ClosedPc(e.code)
  /\ UNCHANGED <<params, attempts, sessVars, decVars, voiVars, evVars>>

\* `except (OSError, GatewayNotFound, aiohttp.ClientError, asyncio.TimeoutError, ...) as ex`
SupOnNetwork ==
  /\ supPc = "session"
  /\ \E e \in NetworkErrors, w \in WsStates :
       /\ supExc' = e /\ supWs' = w
       /\ params' = IF Resumable(e) THEN ResumeParams(w) ELSE FreshParams
       /\ supPc' = AfterHandlerPc(Resumable(e))
  /\ UNCHANGED <<attempts, outcome, sessVars, decVars, voiVars, evVars>>

\* `except Exception as e`
SupOnOther ==
  /\ supPc = "session"
  /\ \E e \in OtherErrors, w \in WsStates :
       /\ supExc' = e /\ supWs' = w
       /\ params' = FreshParams
       /\ supPc' = AfterHandlerPc(FALSE)
  /\ UNCHANGED <<attempts, outcome, sessVars, decVars, voiVars, evVars>>

\* `await asyncio.sleep(randint(1, 5))` returns
SupSleep ==
  /\ supPc = "sleep"
  /\ supPc' = "top"
  /\ UNCHANGED <<params, supWs, supExc, attempts, outcome, sessVars, decVars, voiVars, evVars>>

SupNext ==
  \/ SupAttempt \/ SupOnRestart \/ SupOnClosed \/ SupOnNetwork \/ SupOnOther \/ SupSleep

SupSpec == SupInit /\ [][SupNext]_vars

\* ------------------------------------------------- receive(): inflate buffer
\* the zlib full-flush suffix `b"\x00\x00\xff\xff"`
Suffix == <<0, 0, 255, 255>>
SuffixLen == 4

\* one compressed message: its deflate block, standing for the text it
\* inflates to, followed by the flush suffix
OpenBrace == 123     \* "{": a text OverriddenJson.loads accepts
Bang == 33           \* "!": a text OverriddenJson.loads rejects
Payloads == {OpenBrace, Bang}
Msg(p) == <<p>> \o Suffix
MsgLen == 1 + SuffixLen

RECURSIVE StreamsOf(_)
StreamsOf(n) ==
  IF n = 0 THEN {<<>>}
  ELSE {Msg(p) \o s : p \in Payloads, s \in StreamsOf(n - 1)}
Streams == StreamsOf(MaxMsgs)

\* `OverriddenJson.loads(msg)` succeeds
ValidJson(text) == text = <<OpenBrace>>

\* what the inflater gives when it is out of step with the bytes it is fed:
\* a text that is no JSON document (or zlib.error, see Decompress)
Garbage == <<0>>

\* `len(resp.data) < 4 or resp.data[-4:] != b"\x00\x00\xff\xff"` is false
FrameComplete(f) ==
  /\ Len(f) >= SuffixLen
  /\ SubSeq(f, Len(f) - SuffixLen + 1, Len(f)) = Suffix

\* the inflater is in step: self._zlib was created for the current socket
\* and has been fed, with b, exactly the bytes that socket delivered, in order
InStep(b, n) ==
  /\ zsock = rsock
  /\ zfed \o b = SubSeq(stream, 1, n)

\* `self._zlib.decompress(buffer).decode("utf-8")` of whole messages, in step
Inflate(b) == [i \in 1..(Len(b) \div MsgLen) |-> b[(i - 1) * MsgLen + 1]]

\* a receive() begins on the first socket, right after __aenter__
DecInit ==
  /\ stream \in Streams /\ pos = 0
  /\ buffer = <<>> /\ bufSock = 0
  /\ zfed = <<>> /\ zsock = 1 /\ rsock = 1
  /\ returned = <<>> /\ rstate = "reading" /\ ntext = 0 /\ fragmented = FALSE

\* `try: msg = OverriddenJson.loads(msg)`: a document is returned and the next
\* receive() starts with an empty buffer; otherwise the main session logs and
\* continues its loop with the buffer as it is, and the voice session returns
\* the text itself, on which the run loop's `msg.get("op")` raises
Loads(text, b, bs) ==
  IF ValidJson(text)
    THEN /\ returned' = Append(returned, text)
         /\ buffer' = <<>> /\ bufSock' = 0
         /\ rstate' = "reading"
    ELSE IF kind = "main"
      THEN /\ buffer' = b /\ bufSock' = bs
           /\ UNCHANGED <<returned, rstate>>
      ELSE /\ returned' = Append(returned, text)
           /\ buffer' = <<>> /\ bufSock' = 0
           /\ rstate' = "raised"

\* `msg = self._zlib.decompress(buffer)`: out of step the call raises
\* zlib.error, which leaves receive() and run(), or gives a wrong text
Decompress(b, bs, n) ==
  /\ zfed' = zfed \o b
  /\ IF InStep(b, n)
       THEN Loads(Inflate(b), b, bs)
       ELSE \/ /\ rstate' = "raised"
               /\ buffer' = b /\ bufSock' = bs
               /\ UNCHANGED returned
            \/ Loads(Garbage, b, bs)

\* ws.receive() gives a binary frame of k bytes, part of one message:
\* `buffer.extend(resp.data)`, then the test of the frame's last four bytes
RecvBinary(k) ==
  /\ rstate = "reading"
  /\ pos + k <= Len(stream)
  /\ (pos % MsgLen) + k <= MsgLen
  /\ pos' = pos + k
  /\ fragmented' = (fragmented \/ k < MsgLen)
  /\ LET frame == SubSeq(stream, pos + 1, pos + k)
         b == buffer \o frame
         bs == IF buffer = <<>> THEN rsock ELSE bufSock
     IN IF FrameComplete(frame)
          THEN Decompress(b, bs, pos + k)
          ELSE /\ buffer' = b /\ bufSock' = bs
               /\ UNCHANGED <<zfed, returned, rstate>>
  /\ UNCHANGED <<stream, zsock, rsock, ntext, sessVars, supVars, voiVars, evVars>>

\* ws.receive() gives a text frame: `msg = resp.data`
RecvText(p) ==
  /\ rstate = "reading"
  /\ ntext < MaxTexts
  /\ ntext' = ntext + 1
  /\ Loads(<<p>>, buffer, bufSock)
  /\ UNCHANGED <<stream, pos, zfed, zsock, rsock, fragmented, sessVars, supVars, voiVars, evVars>>

\* the socket is replaced while receive() loops: reconnect() called from the
\* CLOSE / CLOSED branch, or by the heartbeater; the main session creates a new
\* decompressobj, the voice session keeps `self._zlib`; the local buffer stays
DecReconnect ==
  /\ rstate = "reading"
  /\ rsock < MaxSockets
  /\ rsock' = rsock + 1
  /\ stream' \in Streams /\ pos' = 0
  /\ IF kind = "main"
       THEN zfed' = <<>> /\ zsock' = rsock + 1
       ELSE UNCHANGED <<zfed, zsock>>
  /\ UNCHANGED <<buffer, bufSock, returned, rstate, ntext, fragmented, sessVars, supVars, voiVars, evVars>>

RecvInit == SessInit /\ SupIdle /\ DecInit /\ VoiIdle /\ EvIdle

RecvNext ==
  \/ \E k \in 1..MaxFrameLen : RecvBinary(k)
  \/ \E p \in Payloads : RecvText(p)
  \/ DecReconnect

RecvSpec == RecvInit /\ [][RecvNext]_vars

\* ------------------------------------------- voice server update (VsuSpec)
\* VoiceGateway.reconnect(resume=False) against set_new_voice_server: the
\* payloads of voice_server_update are numbered in the order of the calls, 0 is
\* the payload the session was constructed with. Reconnects are serialised by
\* the send lock, so one reconnect is followed at a time.
VsuOthers == <<sessVars, supVars, decVars, modeVars, encVars, pktVars, discVars, evVars, rdyVars>>

\* variant: a reconnect that leaves the signal set
SignalKept == TRUE
\* `self._voice_server_update.clear()`
SignalAfterWait == FALSE

\* the session is connected to the endpoint and identified with the token it
\* was constructed with
VsuInit ==
  /\ SessInit /\ kind = "voice" /\ SupIdle /\ DecIdle /\ ModeIdle /\ EncIdle /\ PktIdle /\ DiscIdle /\ EvIdle /\ RdyIdle
  /\ ws_url = 0 /\ token = 0 /\ voiceServerUpdate = FALSE
  /\ vrPc = "connected" /\ connUrl = 0 /\ sockUrl = 0 /\ identTok = 0
  /\ heard = 0 /\ nVr = 0

\* set_new_voice_server(payload): ws_url, token and guild_id are assigned and
\* the event is set without a suspension point
VsuSetNewVoiceServer ==
  /\ ws_url < MaxUpdates
  /\ ws_url' = ws_url + 1
  /\ token' = ws_url + 1
  /\ voiceServerUpdate' = TRUE
  /\ heard' = IF vrPc = "rc_vsu" THEN ws_url + 1 ELSE heard
  /\ UNCHANGED <<vrPc, connUrl, sockUrl, identTok, nVr, VsuOthers>>

\* reconnect(resume=False) up to the bounded wait: the socket is closed and
\* self.ws = None; with the event set already the wait returns at once, the
\* event is cleared and websocket_connect(self.ws_url) is called
VsuReconnect ==
  /\ vrPc = "connected" /\ nVr < MaxVoiceReconnects
  /\ nVr' = nVr + 1
  /\ sockUrl' = Null
  /\ heard' = 0
  /\ IF voiceServerUpdate
       THEN /\ voiceServerUpdate' = SignalAfterWait
            /\ connUrl' = ws_url
            /\ vrPc' = "rc_connect"
       ELSE /\ vrPc' = "rc_vsu"
            /\ UNCHANGED <<voiceServerUpdate, connUrl>>
  /\ UNCHANGED <<ws_url, token, identTok, VsuOthers>>

\* the awaited event is set: `self._voice_server_update.clear()`, then
\* websocket_connect(self.ws_url) is called
VsuServerUpdate ==
  /\ vrPc = "rc_vsu" /\ voiceServerUpdate
  /\ voiceServerUpdate' = SignalAfterWait
  /\ connUrl' = ws_url
  /\ vrPc' = "rc_connect"
  /\ UNCHANGED <<ws_url, token, sockUrl, identTok, heard, nVr, VsuOthers>>

\* asyncio.TimeoutError after 5 s without the event: the session is terminated
VsuTimeout ==
  /\ vrPc = "rc_vsu" /\ ~voiceServerUpdate
  /\ vrPc' = "terminated"
  /\ UNCHANGED <<ws_url, token, voiceServerUpdate, connUrl, sockUrl, identTok, heard, nVr,
                 VsuOthers>>

\* websocket_connect returns the socket; `await self.receive(force=True)` begins
VsuConnected ==
  /\ vrPc = "rc_connect"
  /\ sockUrl' = connUrl
  /\ vrPc' = "rc_hello"
  /\ UNCHANGED <<ws_url, token, voiceServerUpdate, connUrl, identTok, heard, nVr, VsuOthers>>

\* websocket_connect or the read of HELLO raises: the exception leaves
\* reconnect() and the run loop
VsuFail ==
  /\ vrPc \in {"rc_connect", "rc_hello"}
  /\ vrPc' = "raised"
  /\ UNCHANGED <<ws_url, token, voiceServerUpdate, connUrl, sockUrl, identTok, heard, nVr,
                 VsuOthers>>

\* HELLO is read; _identify() writes IDENTIFY with self.guild_id and self.token
VsuHello ==
  /\ vrPc = "rc_hello"
  /\ identTok' = token
  /\ vrPc' = "rc_ident"
  /\ UNCHANGED <<ws_url, token, voiceServerUpdate, connUrl, sockUrl, heard, nVr, VsuOthers>>

\* the write returns; `self._closed.set()`, reconnect() returns
VsuDone ==
  /\ vrPc = "rc_ident"
  /\ vrPc' = "connected"
  /\ UNCHANGED <<ws_url, token, voiceServerUpdate, connUrl, sockUrl, identTok, heard, nVr,
                 VsuOthers>>

VsuNext ==
  \/ VsuSetNewVoiceServer \/ VsuReconnect \/ VsuServerUpdate \/ VsuTimeout
  \/ VsuConnected \/ VsuFail \/ VsuHello \/ VsuDone

VsuSpec == VsuInit /\ [][VsuNext]_vars

\* ------------------------------------------------- voice handshake (HsSpec)
\* READY, IP discovery, SELECT_PROTOCOL, SESSION_DESCRIPTION and the packets
\* sent afterwards, as the run loop of the voice session goes through them
HsOthers == <<sessVars, supVars, decVars, vsuVars, encVars, evVars>>

\* n zero bytes
Zeros(n) == [i \in 1..n |-> 0]
\* struct.pack_into(">H" / ">I", ...): n bytes of `base` values, most significant first
Pack(v, n, base) == [i \in 1..n |-> (v \div (base ^ (n - i))) % base]

\* Encryption.SUPPORTED
SUPPORTED == <<"xsalsa20_poly1305_suffix", "xsalsa20_poly1305">>
\* `mode in Encryption.SUPPORTED`
IsSupported(mode) == \E i \in 1..Len(SUPPORTED) : SUPPORTED[i] = mode

\* modes a voice server may offer
ServerModes ==
  {"xsalsa20_poly1305_suffix", "xsalsa20_poly1305", "xsalsa20_poly1305_lite",
   "aead_aes256_gcm"}
ModeLists == UNION {[1..n -> ServerModes] : n \in 0..MaxModes}

\* variant: the supported modes the server offers, in the local order
LocalOrder(modes) ==
  SelectSeq(SUPPORTED, LAMBDA m : \E i \in 1..Len(modes) : modes[i] = m)
\* `[mode for mode in data["modes"] if mode in Encryption.SUPPORTED]`
FilterModes(modes) == SelectSeq(modes, IsSupported)

\* values of data["ssrc"] of READY
ReadySsrcs == {42, 305419896}

\* establish_voice_socket: the 70-byte packet of type 1, length 70 and the ssrc
DiscoveryPacket(src) ==
  Pack(DiscoverySend, 2, 256) \o Pack(DiscoveryLen, 2, 256) \o Pack(src, 4, 256)
    \o Zeros(DiscoveryLen - 8)

\* a well-formed answer: 4 bytes, the address as ASCII, NUL bytes, the port
AnswerOf(ip, port) ==
  Pack(42, 4, 256) \o ip \o Zeros(DiscoveryLen - IpStart - Len(ip) - 2) \o Pack(port, 2, 256)
\* what sock_recv may return: well-formed answers ("9.9.9.9", "1", an empty
\* address; a port with and without a zero high byte), an address that fills
\* its field, an answer without any NUL byte, a non-ASCII address, a short datagram
Answers ==
  {AnswerOf(ip, port) : ip \in {<<57, 46, 57, 46, 57, 46, 57>>, <<49>>, <<>>},
                        port \in {60000, 80}}
    \cup {AnswerOf([i \in 1..(DiscoveryLen - IpStart - 2) |-> 49], 80),
          [i \in 1..DiscoveryLen |-> 49],
          AnswerOf(<<49, 200>>, 80),
          <<0, 0, 0, 42, 49, 0, 1, 2>>}

\* `resp.index(0, ip_start)`: the positions it may find (1-based)
NulAt(resp) == {i \in (IpStart + 1)..Len(resp) : resp[i] = 0}
\* `resp[ip_start:ip_end]`
ParseIp(resp) ==
  SubSeq(resp, IpStart + 1, (CHOOSE i \in NulAt(resp) : \A j \in NulAt(resp) : i <= j) - 1)
\* `.decode("ascii")` accepts the bytes
IsAscii(bs) == \A i \in 1..Len(bs) : bs[i] < 128
\* variant: the port read least significant byte first
PortLittleEndian(resp) == resp[Len(resp)] * 256 + resp[Len(resp) - 1]
\* `struct.unpack_from(">H", resp, len(resp) - 2)[0]`
ParsePort(resp) == resp[Len(resp) - 1] * 256 + resp[Len(resp)]

\* the exception establish_voice_socket / _select_protocol end with, if any
DiscoveryExc(resp, modes) ==
  IF NulAt(resp) = {} THEN "ValueError"
  ELSE IF ~IsAscii(ParseIp(resp)) THEN "UnicodeDecodeError"
  ELSE IF modes = <<>> THEN "IndexError"
  ELSE "none"

HsInit ==
  /\ SessInit /\ kind = "voice" /\ SupIdle /\ DecIdle /\ VsuIdle /\ EncIdle /\ PktIdle /\ DiscIdle /\ EvIdle
  /\ encryptor = NoEncryptor /\ vconn = 1
  /\ offered = <<>> /\ voice_modes = <<>> /\ hsPc = "receiving"
  /\ datagrams = 0 /\ selected = <<>> /\ ready = FALSE
  /\ hsExc = "none" /\ usedMode = "none" /\ packets = 0

\* dispatch_opcode, case OP.READY: ssrc is stored, voice_modes is filtered (an
\* empty list is logged only), then establish_voice_socket() sends the
\* discovery datagram and awaits the answer
HsReady(modes, src) ==
  /\ hsPc = "receiving" /\ offered = <<>> /\ ~ready
  /\ offered' = modes
  /\ ssrc' = src
  /\ voice_modes' = FilterModes(modes)
  /\ datagrams' = datagrams + 1
  /\ dgram' = DiscoveryPacket(src)
  /\ hsPc' = "discovering"
  /\ UNCHANGED <<selected, ready, hsExc, usedMode, packets, HsOthers, pktRest,
                 reply, me_ip, me_port, selectFrame, rdyVars>>

\* sock_recv returns the answer: the address and the port are parsed, and
\* _select_protocol() builds its payload with them and self.voice_modes[0]
\* and sends it
HsDiscovered(resp) ==
  /\ hsPc = "discovering"
  /\ reply' = resp
  /\ hsExc' = DiscoveryExc(resp, voice_modes)
  /\ IF hsExc' \in {"ValueError", "UnicodeDecodeError"}
       THEN UNCHANGED <<me_ip, me_port>>
       ELSE me_ip' = ParseIp(resp) /\ me_port' = ParsePort(resp)
  /\ IF hsExc' # "none"
       THEN /\ hsPc' = "raised"
            /\ UNCHANGED <<selected, selectFrame>>
       ELSE /\ selected' = Append(selected, voice_modes[1])
            /\ selectFrame' = [address |-> me_ip', port |-> me_port', mode |-> voice_modes[1]]
            /\ hsPc' = "receiving"
  /\ UNCHANGED <<offered, voice_modes, datagrams, ready, usedMode, packets, HsOthers, pktVars,
                 dgram, rdyVars>>

\* data["secret_key"] of SESSION_DESCRIPTION
SecretKeys == {11, 22}

\* dispatch_opcode, case OP.SESSION_DESCRIPTION, which the server sends in
\* answer to SELECT_PROTOCOL: `self.encryptor = Encryption(data["secret_key"])`,
\* `self.ready.set()`
HsSessionDescription(key) ==
  /\ hsPc = "receiving" /\ selected # <<>> /\ ~ready
  /\ encryptor' = [secret_key |-> key, conn |-> vconn]
  /\ ready' = TRUE
  /\ UNCHANGED <<offered, voice_modes, hsPc, datagrams, selected, hsExc, usedMode, packets,
                 HsOthers, pktVars, discVars, vconn>>

\* send_packet -> generate_packet: `self.encryptor.encrypt(self.voice_modes[0], header, data)`
HsSendPacket ==
  /\ ready /\ packets < MaxPackets
  /\ packets' = packets + 1
  /\ usedMode' = voice_modes[1]
  /\ UNCHANGED <<offered, voice_modes, hsPc, datagrams, selected, ready, hsExc, HsOthers,
                 pktVars, discVars, rdyVars>>

HsNext ==
  \/ \E modes \in ModeLists, src \in ReadySsrcs : HsReady(modes, src)
  \/ \E resp \in Answers : HsDiscovered(resp)
  \/ \E key \in SecretKeys : HsSessionDescription(key)
  \/ HsSendPacket

HsSpec == HsInit /\ [][HsNext]_vars

\* ------------------------------------------------- Encryption.encrypt (EncSpec)
\* encrypt(mode, header, data) as a function of its arguments. A byte of the
\* returned packet is written with how it was produced: copied in the clear,
\* or produced by the SecretBox from the data under a nonce.
EncOthers == <<sessVars, supVars, decVars, vsuVars, modeVars, pktVars, discVars, evVars, rdyVars>>

Bytes == 0..MaxField
\* struct.pack_into(">H" / ">I", ...) into the RTP header, in scaled bytes
BigEndian(v, n) == Pack(v, n, ByteBase)
\* generate_packet: the RTP header of sock_sequence, timestamp and ssrc
Header(seq, ts, src) ==
  <<128, 120>> \o BigEndian(seq, 2) \o BigEndian(ts, 4) \o BigEndian(src, 4)
Headers == {Header(s, t, r) : s \in 0..MaxField, t \in 0..MaxField, r \in 0..MaxField}
DataSet == UNION {[1..n -> Bytes] : n \in 0..MaxData}
\* modes encrypt() may be called with
EncModes == ServerModes \cup {""}
\* what utils.random(NONCE_SIZE) may return
RandomNonces == {[i \in 1..NonceLen |-> b] : b \in Bytes}

\* bytes copied into the packet as they are
Clear(bs) == [i \in 1..Len(bs) |-> [tag |-> "clear", v |-> bs[i], nonce |-> <<>>]]
\* `self.box.encrypt(bytes(data), nonce).ciphertext`: the authenticator, then
\* one encrypted byte for each byte of data
Ciphertext(data, nonce) ==
  <<[tag |-> "mac", v |-> Len(data), nonce |-> nonce]>>
    \o [i \in 1..Len(data) |-> [tag |-> "sealed", v |-> data[i], nonce |-> nonce]]

\* variant: a wildcard case that encrypts in the plain mode
WildcardEncrypts(mode) ==
  IF mode = "xsalsa20_poly1305_suffix" THEN "suffix" ELSE "plain"
\* the `match mode` of encrypt(): the case that is taken
EncCase(mode) ==
  IF mode = "xsalsa20_poly1305_suffix" THEN "suffix"
  ELSE IF mode = "xsalsa20_poly1305" THEN "plain"
  ELSE "reject"

\* variant: the nonce is left all zero
ZeroNonce(header) == Zeros(NonceLen)
\* `nonce = bytearray(24); nonce[:12] = header`: the first 12 bytes are
\* replaced by the header, whatever its length
HeaderNonce(header) == header \o SubSeq(Zeros(NonceLen), HeaderLen + 1, NonceLen)

EncInit ==
  /\ SessInit /\ kind = "voice" /\ SupIdle /\ DecIdle /\ VsuIdle /\ ModeIdle /\ PktIdle /\ DiscIdle /\ EvIdle /\ RdyIdle
  /\ encPc = "called"
  /\ encMode \in EncModes /\ encHeader \in Headers /\ encData \in DataSet
  /\ encNonce = <<>> /\ encOut = <<>> /\ encExc = "none"

\* xsalsa20_poly1305_suffix: a random nonce, appended to the packet
EncSuffix(nonce) ==
  /\ encPc = "called" /\ EncCase(encMode) = "suffix"
  /\ encNonce' = nonce
  /\ encOut' = Clear(encHeader) \o Ciphertext(encData, nonce) \o Clear(nonce)
  /\ encPc' = "done"
  /\ UNCHANGED <<encMode, encHeader, encData, encExc, EncOthers>>

\* xsalsa20_poly1305: the nonce is made of the header
EncPlain ==
  /\ encPc = "called" /\ EncCase(encMode) = "plain"
  /\ encNonce' = HeaderNonce(encHeader)
  /\ encOut' = Clear(encHeader) \o Ciphertext(encData, HeaderNonce(encHeader))
  /\ encPc' = "done"
  /\ UNCHANGED <<encMode, encHeader, encData, encExc, EncOthers>>

\* `case _: raise RuntimeError("Unsupported encryption type requested: ...")`
EncReject ==
  /\ encPc = "called" /\ EncCase(encMode) = "reject"
  /\ encExc' = "RuntimeError"
  /\ encPc' = "done"
  /\ UNCHANGED <<encMode, encHeader, encData, encNonce, encOut, EncOthers>>

EncNext ==
  \/ \E nonce \in RandomNonces : EncSuffix(nonce)
  \/ EncPlain \/ EncReject

EncSpec == EncInit /\ [][EncNext]_vars

\* ------------------------------------------------- voice packets (PktSpec)
\* send_packet / generate_packet after the handshake. Widths are scaled: a
\* byte has ByteBase values, so the 2-byte sequence counter has
\* ByteBase^2 values and the 4-byte timestamp ByteBase^4.
PktOthers == <<sessVars, supVars, decVars, vsuVars, modeVars, encVars, discVars, evVars, rdyVars>>

SeqLimit == ByteBase ^ 2 - 1     \* 0xFFFF
StampLimit == ByteBase ^ 4 - 1   \* 0xFFFFFFFF
\* values of data["ssrc"] of READY
Ssrcs == {42, StampLimit}
\* what the encoder hands to generate_packet: nothing, or one byte
Payloads1 == {d \in DataSet : Len(d) <= 1}
\* encoder.samples_per_frame
SamplesPerFrame == {24, 40}

\* variant: the counter is reset one packet late
WrapsAbove(n) == IF n > SeqLimit + 1 THEN 0 ELSE n
\* `if self.sock_sequence > 0xFFFF: self.sock_sequence = 0`
SeqWrap(n) == IF n > SeqLimit THEN 0 ELSE n
\* `if self.timestamp > 0xFFFFFFFF: self.timestamp = 0`
StampWrap(n) == IF n > StampLimit THEN 0 ELSE n

\* variant: the header is built with the counter of the previous packet
HeaderOfPrevious(seq, ts, src) == Header(IF seq = 0 THEN SeqLimit ELSE seq - 1, ts, src)
\* generate_packet: header of the counters as they are when it is called
PacketHeader(seq, ts, src) == Header(seq, ts, src)

\* `self.encryptor.encrypt(self.voice_modes[0], header, data)` with a supported mode
Encrypted(mode, hdr, data, nonce) ==
  IF EncCase(mode) = "suffix"
    THEN Clear(hdr) \o Ciphertext(data, nonce) \o Clear(nonce)
    ELSE Clear(hdr) \o Ciphertext(data, HeaderNonce(hdr))

\* the handshake is over: READY gave the ssrc, one supported mode was selected,
\* SESSION_DESCRIPTION set ready; sock_sequence and timestamp are 0
PktInit ==
  /\ SessInit /\ kind = "voice" /\ SupIdle /\ DecIdle /\ VsuIdle /\ EncIdle /\ DiscIdle /\ EvIdle
  /\ encryptor = [secret_key |-> CHOOSE k \in SecretKeys : TRUE, conn |-> 1] /\ vconn = 1
  /\ \E i \in 1..Len(SUPPORTED) :
       /\ offered = <<SUPPORTED[i]>> /\ voice_modes = <<SUPPORTED[i]>>
       /\ selected = <<SUPPORTED[i]>>
  /\ hsPc = "receiving" /\ datagrams = 1 /\ ready = TRUE
  /\ hsExc = "none" /\ usedMode = "none" /\ packets = 0
  /\ sock_sequence = 0 /\ timestamp = 0 /\ ssrc \in Ssrcs /\ spf = 0
  /\ rtpHeader = <<>> /\ rtpPacket = <<>>

\* send_packet(data, encoder): the counters are stepped and wrapped, the packet
\* is generated and sent, the timestamp is advanced
PktSend(data, samples, nonce) ==
  /\ sock_sequence' = SeqWrap(sock_sequence + 1)
  /\ spf' = samples
  /\ rtpHeader' = PacketHeader(sock_sequence', StampWrap(timestamp), ssrc)
  /\ rtpPacket' = Encrypted(voice_modes[1], rtpHeader', data, nonce)
  /\ timestamp' = StampWrap(timestamp) + samples
  /\ UNCHANGED <<ssrc, PktOthers>>

PktNext ==
  \E data \in Payloads1, samples \in SamplesPerFrame, nonce \in RandomNonces :
     PktSend(data, samples, nonce)

PktSpec == PktInit /\ [][PktNext]_vars

\* ------------------------------------------------- DISPATCH and its handler
\* GatewayClient.run hands every DISPATCH frame to a dispatch_event task; here
\* the frames are arbitrary and one session takes them one after the other
evSessRest == <<kind, pc, ret, lockQ, exc, sendOnly, rcOnly, ws, acknowledged, killBeeGees,
                keepAlive, entered, msg, pendingEv, excCode, lastResp, counters, srvSeq,
                hbHist, sockBy>>
EvOthers == <<evSessRest, supVars, decVars, voiVars>>

EventNames == {"READY", "RESUMED", "GUILD_MEMBERS_CHUNK", "MESSAGE_CREATE"}
ReadySessionIds == {7, 8}
Traces == {<<"gateway-prd-1">>, <<"gateway-prd-1", "discord-sessions-2">>}

\* the frames handed over: "t", "s" and the keys of "d" the handlers read;
\* processor: client.processors has an entry for the raw event name
DispatchFrames ==
  [event : EventNames, seq : 0..MaxSeq, has_session_id : BOOLEAN, session_id : ReadySessionIds,
   has_trace : BOOLEAN, trace : Traces, processor : BOOLEAN]

\* `self.sequence = seq` of the READY handler: None when the frame has no "s"
HandlerSequence(seq) == IF seq = 0 THEN Null ELSE seq

\* `data.get("_trace", [])`
TraceOf(d) == IF d.has_trace THEN d.trace ELSE <<>>

\* f"raw_{event.lower()}"
RawName(event) ==
  CASE event = "READY" -> "raw_ready"
    [] event = "RESUMED" -> "raw_resumed"
    [] event = "GUILD_MEMBERS_CHUNK" -> "raw_guild_members_chunk"
    [] event = "MESSAGE_CREATE" -> "raw_message_create"

\* variant: a READY case that does not return and reaches the raw dispatches
ReadyFallsThrough(d) == <<"websocket_ready", "raw_socket_receive", RawName(d.event)>>

\* case "READY": `return self.state.client.dispatch(events.WebsocketReady(data))`
ReadyEvents(d) == <<"websocket_ready">>

\* the two dispatches after the match statement
RawEvents(d) == <<"raw_socket_receive", RawName(d.event)>>

EvInit ==
  /\ SessInit /\ kind = "main" /\ SupIdle /\ DecIdle /\ VoiIdle /\ EvIdle

\* run(): `if seq: self.sequence = seq`, then
\* `asyncio.create_task(self.dispatch_event(data, seq, event))`
EvSpawn(d) ==
  /\ evIn = NoEvent /\ nEv < MaxEvents
  /\ nEv' = nEv + 1
  /\ sequence' = IF d.seq # 0 THEN d.seq ELSE sequence
  /\ evIn' = d
  /\ evExc' = "none"
  /\ UNCHANGED <<session_id, trace, dispatched, spawned, EvOthers>>

\* the spawned dispatch_event task runs
EvHandle ==
  /\ evIn # NoEvent
  /\ evIn' = NoEvent
  /\ CASE evIn.event = "READY" ->
            /\ trace' = TraceOf(evIn)
            /\ sequence' = HandlerSequence(evIn.seq)
            /\ IF evIn.has_session_id
                 THEN /\ session_id' = evIn.session_id
                      /\ dispatched' = dispatched \o ReadyEvents(evIn)
                      /\ evExc' = "none"
                 ELSE \* data["session_id"]
                      /\ evExc' = "KeyError"
                      /\ UNCHANGED <<session_id, dispatched>>
            /\ UNCHANGED spawned
       [] evIn.event = "RESUMED" ->
            /\ dispatched' = Append(dispatched, "resume")
            /\ UNCHANGED <<sequence, session_id, trace, spawned, evExc>>
       [] evIn.event = "GUILD_MEMBERS_CHUNK" ->
            /\ spawned' = Append(spawned, "_process_member_chunk")
            /\ UNCHANGED <<sequence, session_id, trace, dispatched, evExc>>
       [] OTHER ->
            /\ spawned' = IF evIn.processor THEN Append(spawned, "processor") ELSE spawned
            /\ dispatched' = dispatched \o RawEvents(evIn)
            /\ UNCHANGED <<sequence, session_id, trace, evExc>>
  /\ UNCHANGED <<nEv, EvOthers>>

EvNext ==
  \/ \E d \in DispatchFrames : EvSpawn(d)
  \/ EvHandle

EvSpec == EvInit /\ [][EvNext]_vars

\* --------------------------------------- the ready flag of a voice session
\* one voice session from its first connection on: the handshake of HsSpec on
\* each connection, and the ways the connection is dropped and replaced
RdyOthers == <<sessVars, supVars, decVars, vsuVars, encVars, evVars, pktVars, discVars>>
RdyHandshake == <<voice_modes, datagrams, usedMode, packets>>

\* a READY offering one supported mode and a well-formed discovery answer
RdyModes == {<<SUPPORTED[i]>> : i \in 1..Len(SUPPORTED)}
RdyAnswer == AnswerOf(<<49>>, 80)

\* receive(): CLOSE 4014, `self.ready.clear()`, `await self.reconnect()`; the
\* reconnect gets the new voice server, connects and identifies
RdyDisconnected ==
  /\ hsPc = "receiving" /\ vconn # 0 /\ vconn < MaxSockets
  /\ ready' = FALSE
  /\ vconn' = vconn + 1
  /\ offered' = <<>> /\ selected' = <<>>
  /\ UNCHANGED <<hsPc, hsExc, encryptor, RdyHandshake, RdyOthers>>

\* the same, and no voice server update arrives within the 5 s: reconnect()
\* sets the kill and close flags and returns with ws = None
RdyTimedOut ==
  /\ hsPc = "receiving" /\ vconn # 0
  /\ ready' = FALSE
  /\ vconn' = 0
  /\ hsPc' = "closed"
  /\ UNCHANGED <<offered, selected, hsExc, encryptor, RdyHandshake, RdyOthers>>

\* receive(): CLOSE with another code, `raise VoiceWebSocketClosed(resp.data)`;
\* run() ends and __aexit__ closes the socket
RdyClosed(code) ==
  /\ hsPc = "receiving" /\ vconn # 0
  /\ ~VoiceCloseReconnects(code)
  /\ hsExc' = "VoiceWebSocketClosed"
  /\ hsPc' = "raised"
  /\ vconn' = 0
  /\ UNCHANGED <<offered, selected, ready, encryptor, RdyHandshake, RdyOthers>>

\* the heartbeater finds its heartbeat unacknowledged: `reconnect(resume=True)`
\* closes the socket and connects a new one, then waits for HELLO
RdyZombie ==
  /\ hsPc = "receiving" /\ vconn # 0 /\ vconn < MaxSockets
  /\ vconn' = vconn + 1
  /\ hsPc' = "resuming"
  /\ offered' = <<>> /\ selected' = <<>>
  /\ UNCHANGED <<ready, hsExc, encryptor, RdyHandshake, RdyOthers>>

\* HELLO arrives and _resume_connection raises NotImplementedError:
\* run_bee_gees sets the close flag, run() returns, __aexit__ closes the socket
RdyResumeFails ==
  /\ hsPc = "resuming"
  /\ hsPc' = "closed"
  /\ vconn' = 0
  /\ UNCHANGED <<offered, selected, ready, hsExc, encryptor, RdyHandshake, RdyOthers>>

RdyNext ==
  \/ \E modes \in RdyModes, src \in ReadySsrcs : HsReady(modes, src)
  \/ HsDiscovered(RdyAnswer)
  \/ \E key \in SecretKeys : HsSessionDescription(key)
  \/ HsSendPacket
  \/ RdyDisconnected \/ RdyTimedOut \/ RdyZombie \/ RdyResumeFails
  \/ \E code \in CloseCodes : RdyClosed(code)

RdySpec == HsInit /\ [][RdyNext]_vars

\* -------------------------------------------------------------------- Next
Next ==
  \/ OpenStart \/ OpenConnected \/ OpenFail \/ OpenHello \/ OpenIdentified
  \/ RxWake \/ RxData \/ RxClose \/ RxClosed
  \/ RxDispatch \/ RxOpHeartbeat \/ RxOpAck \/ RxOpReconnect \/ RxOpInvalidate \/ RxOpOther
  \/ DispatchEvent \/ RunStop \/ RunCancelled
  \/ ExitStart \/ ExitJoined \/ ExitCancelled \/ ExitClosed
  \/ RlRefill
  \/ HbStart \/ HbTick \/ HbKilled
  \/ AppSend \/ Close \/ SetNewVoiceServer
  \/ \E t \in Tasks :
       \/ SendAcquire(t) \/ SendRateLimited(t) \/ SendDone(t)
       \/ RcAcquire(t) \/ RcClosed(t) \/ RcServerUpdate(t) \/ RcTimeout(t)
       \/ RcConnected(t) \/ RcFail(t) \/ RcHello(t) \/ RcHelloClose(t) \/ RcDone(t)

Spec == Init /\ [][Next]_vars

\* ------------------------------------------------------------- scheduling
\* the steps a task takes by itself inside send() and reconnect(): the event
\* loop resumes a task whose await has completed; a socket operation in
\* progress (close, connect, HELLO, the bounded wait for the voice server)
\* ends one way or the other
TaskStep(t) ==
  \/ SendAcquire(t) \/ SendRateLimited(t) \/ SendDone(t)
  \/ RcAcquire(t) \/ RcClosed(t) \/ RcServerUpdate(t) \/ RcTimeout(t)
  \/ RcConnected(t) \/ RcFail(t) \/ RcHello(t) \/ RcDone(t)

\* the steps of run() that wait for nothing outside the task: routing a
\* received message and running its handler
RunStep ==
  \/ RxWake \/ RxDispatch
  \/ RxOpHeartbeat \/ RxOpAck \/ RxOpReconnect \/ RxOpInvalidate \/ RxOpOther

\* the session under a fair event loop: tasks that can run do run, the wait
\* of run() returns once the stopping task is done, and time passes for the
\* rate limiter; what the peer and the application do is left open
\* A received response is what lets the peer drive the session further;
\* LiveFrames bounds how many of them the peer delivers in a behaviour of
\* LiveSpec, everything else is as in Next.
LiveNext ==
  \/ OpenStart \/ OpenConnected \/ OpenFail \/ OpenHello \/ OpenIdentified
  \/ RxWake
  \/ (RxData /\ frames' <= LiveFrames)
  \/ (RxClose /\ frames' <= LiveFrames)
  \/ (RxClosed /\ frames' <= LiveFrames)
  \/ RxDispatch \/ RxOpHeartbeat \/ RxOpAck \/ RxOpReconnect \/ RxOpInvalidate \/ RxOpOther
  \/ DispatchEvent \/ RunStop \/ RunCancelled
  \/ ExitStart \/ ExitJoined \/ ExitCancelled \/ ExitClosed
  \/ RlRefill
  \/ HbStart \/ HbTick \/ HbKilled
  \/ AppSend \/ Close \/ SetNewVoiceServer
  \/ \E t \in Tasks : TaskStep(t) \/ (RcHelloClose(t) /\ frames' <= LiveFrames)

\* the steps of __aexit__: it starts when the with-block is left, its wait for
\* the heartbeater returns once that task has finished, and closing the
\* socket ends
TeardownStep == ExitStart \/ ExitJoined \/ ExitClosed

LiveSpec ==
  /\ Init /\ [][LiveNext]_vars
  /\ WF_vars(RunStop) /\ WF_vars(RunStep) /\ WF_vars(TeardownStep)
  /\ \A t \in Tasks : WF_vars(TaskStep(t))
  /\ WF_vars(RlRefill)

\* ================================================================ properties
HbSending == pc["hb"] \in {"s_lock", "s_rl", "s_write"}

\* C1: when a heartbeat cycle begins with the acknowledgement of the previous
\* heartbeat still pending, the heartbeater calls reconnect(resume=True) and
\* sends the cycle's heartbeat only after that reconnect has completed.
C1_ZombieReconnectsBeforeHeartbeat ==
  /\ (tickSawPending /\ HbSending) => hbReconnected
  /\ (tickSawPending /\ ~hbReconnected) =>
        \/ pc["hb"] \in RcPcs /\ rcResume["hb"] /\ ret["hb"] = "beat"
        \/ pc["hb"] = "hb_end"
C1_Witness ==
  /\ tickSawPending /\ hbReconnected
  /\ pc["hb"] = "s_write" /\ wframe["hb"].op = "HEARTBEAT"
  /\ wire = <<[op |-> "RESUME", seq |-> Null, sid |-> Null], wframe["hb"]>>

\* C2: a heartbeat tick that fires while another reconnect is under way causes
\* no second reconnect: the heartbeater, having waited for the lock, does not
\* close a socket that a reconnect completed after its tick has opened.
C2_NoSecondReconnect ==
  [][(pc["hb"] = "rc_lock" /\ pc'["hb"] = "rc_close")
       => ~(lastRc = "completed" /\ rcSeen["hb"] < gen)]_vars

Writing(t) == pc[t] \in {"s_write", "rc_ident"}
InSend(t) == pc[t] \in {"s_rl", "s_write"}

C6_InvalidateClearsSession ==
  [][(Handles("INVALIDATE_SESSION") /\ kind = "main" /\ ~msg.d /\ pc'["rx"] # "r_done")
       => (session_id' = Null /\ sequence' = Null)]_vars

TeardownPcs == {"x_start", "x_join", "x_close", "x_done", "x_refused"}

\* C7: on a peer CLOSE frame the run-loop receiver of the main session raises
\* WebSocketClosed(code) without reconnecting when code >= 4000; otherwise it
\* calls reconnect(code=code) with resume=false for code 1000 and resume=true
\* for any other code, and when that reconnect returns it reads again
\* (a cancellation during teardown replaces the exception afterwards).
C7_CloseFrameRouting ==
  /\ []((kind = "main" /\ lastResp.type = "CLOSE" /\ exc["rx"] # "CancelledError") =>
          IF lastResp.code >= 4000
            THEN /\ pc["rx"] \in TeardownPcs
                 /\ exc["rx"] = "WebSocketClosed" /\ excCode = lastResp.code
                 /\ rcSeen["rx"] = 0
            ELSE /\ pc["rx"] \in RcPcs /\ ret["rx"] = "recv"
                 /\ rcCode["rx"] = lastResp.code
                 /\ rcResume["rx"] = (lastResp.code # 1000))
  /\ [][(kind = "main" /\ lastResp.type = "CLOSE" /\ pc["rx"] = "rc_ident"
          /\ lastRc' = "completed") => pc'["rx"] = "r_read"]_vars
C7_Witness ==
  /\ kind = "main" /\ lastResp = [type |-> "CLOSE", code |-> 3999]
  /\ pc["rx"] = "rc_ident" /\ rcResume["rx"] /\ wire[1].op = "RESUME"

\* C8: when a session ends with WebSocketClosed(code) the supervisor stops:
\* it returns for code 1000, raises its own fatal error for 4011, 4013 and
\* 4014, and re-raises WebSocketClosed for any other code; it starts no
\* further connection attempt.
C8_ClosedEndsSupervisor ==
  /\ [](supExc.type = "WebSocketClosed" =>
          /\ supPc = (IF supExc.code = 1000 THEN "returned" ELSE "raised")
          /\ outcome = CASE supExc.code = 1000 -> "clean"
                         [] supExc.code = 4011 -> "ShardingRequired"
                         [] supExc.code = 4013 -> "InvalidIntents"
                         [] supExc.code = 4014 -> "DisallowedIntents"
                         [] OTHER -> "WebSocketClosed")
  /\ [][supExc.type = "WebSocketClosed" => attempts' = attempts]_vars
C8_Witness ==
  /\ supExc.type = "WebSocketClosed" /\ supExc.code = 4013
  /\ supPc = "raised" /\ outcome = "InvalidIntents" /\ attempts = 2

NetworkTypes == {"OSError", "TimeoutError", "ClientError", "GatewayNotFound"}
Retrying == supPc \in {"top", "sleep", "session"}

\* C9 (as stated): after any OS/network error the next attempt resumes with
\* the session's session_id and sequence whenever a session_id is present.
C9_NetworkErrorResumesWithSession ==
  (supExc.type \in NetworkTypes /\ supWs.session_id # Null) =>
      /\ Retrying
      /\ params = [resume |-> TRUE, session_id |-> supWs.session_id,
                   sequence |-> supWs.sequence]

\* C9: after an OS/network error the supervisor retries; the next attempt
\* resumes, with whatever session_id and sequence the session holds (null
\* included), exactly when the error is an
\* OSError with errno 54 or 10054; after a timeout, an HTTP client error,
\* gateway-not-found or an OSError with another errno it uses resume=false
\* with null session_id and sequence.
C9_OnlyConnectionResetResumes ==
  supExc.type \in NetworkTypes =>
      /\ Retrying
      /\ IF supExc.type = "OSError" /\ supExc.code \in {54, 10054}
           THEN params = [resume |-> TRUE, session_id |-> supWs.session_id,
                          sequence |-> supWs.sequence]
           ELSE params = [resume |-> FALSE, session_id |-> Null, sequence |-> Null]
C9_Witness ==
  /\ supExc.type = "TimeoutError" /\ supWs.session_id # Null
  /\ supPc = "session" /\ ~params.resume /\ params.session_id = Null

\* C10: after WebSocketRestart the next attempt uses resume equal to the
\* exception's flag, with the ended session's session_id and sequence when it
\* is true and null ones when it is false; after an unclassified exception it
\* uses resume=false with null session_id and sequence.
C10_RestartKeepsDeclaredResume ==
  /\ supExc.type = "WebSocketRestart" =>
        /\ Retrying
        /\ params = IF supExc.resume
                      THEN [resume |-> TRUE, session_id |-> supWs.session_id,
                            sequence |-> supWs.sequence]
                      ELSE [resume |-> FALSE, session_id |-> Null, sequence |-> Null]
  /\ supExc.type = "Exception" =>
        /\ Retrying
        /\ params = [resume |-> FALSE, session_id |-> Null, sequence |-> Null]
C10_Witness ==
  /\ supExc = [type |-> "WebSocketRestart", code |-> 0, resume |-> TRUE]
  /\ supPc = "session" /\ attempts = 2
  /\ params = [resume |-> TRUE, session_id |-> 1, sequence |-> 2]

\* C11: between two consecutive connection attempts of the supervisor a
\* backoff sleep occurs: a handler never returns straight to the top of the
\* loop, whatever ended the session.
C11_SleepBetweenAttempts ==
  [][supPc = "session" => supPc' # "top"]_vars

\* C12: a session object that was entered once is never entered again, also
\* after teardown: a further call of __aenter__ raises the re-use error and
\* opens no socket, creates no heartbeater and writes no frame.
C12_ReuseRefused ==
  /\ [][(entered /\ pc["rx"] \in EnterPcs /\ pc'["rx"] # pc["rx"]) =>
          /\ pc'["rx"] \in {"o_refused", "x_refused"}
          /\ UNCHANGED <<entered, ws, sockOpen, gen, keepAlive, wire, wframe, wsock>>
          /\ pc'["hb"] = pc["hb"]]_vars
  /\ [][(pc'["rx"] = "o_connect" /\ pc["rx"] # "o_connect") => ~entered]_vars
C12_Witness ==
  /\ pc["rx"] = "x_refused" /\ entered /\ gen = 1
  /\ ws = Null /\ ~keepAlive /\ pc["hb"] = "hb_end"

\* the session has been torn down: __aexit__ has returned
TornDown == pc["rx"] \in {"x_done", "x_refused"}

\* C13: every exit of an entered session (return, exception, cancellation)
\* leads into teardown; teardown sets the close flag first, has stopped and
\* joined the heartbeater before it closes the socket, and closes it with code
\* 1000; once torn down the session holds no socket and writes no frame.
C13_TeardownOrder ==
  /\ [][(pc["rx"] \in RunPcs /\ pc'["rx"] \notin RunPcs) => pc'["rx"] = "x_start"]_vars
  /\ [][(pc["rx"] = "x_start" /\ pc'["rx"] # "x_start") =>
          /\ pc'["rx"] = "x_join" /\ closeGateway'
          /\ (keepAlive => killBeeGees')
          /\ UNCHANGED <<ws, sockOpen, closeCode>>]_vars
  /\ [](pc["rx"] \in {"x_join", "x_close"} \/ TornDown => closeGateway)
  /\ [](pc["rx"] = "x_close" \/ TornDown => ~keepAlive /\ pc["hb"] = "hb_end")
  /\ [](pc["rx"] = "x_close" => ws # Null /\ ~sockOpen /\ closeCode = CleanClose)
  /\ [](TornDown => ws = Null /\ ~sockOpen)
  /\ [][TornDown => wire' = wire]_vars
C13_Witness ==
  /\ pc["rx"] = "x_done" /\ exc["rx"] = "CancelledError" /\ excCode >= 4000
  /\ closeGateway /\ ~keepAlive /\ pc["hb"] = "hb_end"
  /\ ws = Null /\ closeCode = CleanClose
  /\ \E i \in 1..Len(wire) : wire[i].op = "HEARTBEAT"

\* the with-block is running: the task is inside run()
Running == pc["rx"] \in RunPcs

\* C14: once the close signal is set while run() is running, run() ends,
\* wherever the receive and the heartbeater are at that moment.
C14_CloseEndsRun ==
  (closeGateway /\ Running) ~> ~Running
C14_Witness ==
  /\ closeGateway /\ Running /\ pc["rx"] = "r_read"
  /\ pc["hb"] \in RcPcs \ {"rc_lock"}

\* C15: when the receive has completed and the close signal is set, run()
\* processes the message before it exits: the sequence is updated and the
\* message is routed (READY handler spawned, acknowledgement recorded, opcode
\* handler entered); run() does not return normally with the message unread.
C15_CompletedReceiveProcessed ==
  [][(pc["rx"] = "r_done" /\ closeGateway /\ pc'["rx"] # "r_done"
        /\ exc'["rx"] # "CancelledError") =>
       /\ sequence' = SeqAfter(msg)
       /\ (pc'["rx"] = "x_start" => exc'["rx"] # "none")
       /\ (msg.op = "DISPATCH" /\ msg.t = "READY" /\ kind = "main"
             => pendingEv' = Append(pendingEv, msg))
       /\ (msg.op = "HEARTBEAT_ACK" => acknowledged')
       /\ (msg.op = "HEARTBEAT" /\ kind = "main" /\ pc'["rx"] # "x_start"
             => pc'["rx"] \in {"s_lock", "s_rl", "s_write"})
       /\ (msg.op \in {"RECONNECT", "INVALIDATE_SESSION"} /\ kind = "main"
             /\ pc'["rx"] # "x_start" => pc'["rx"] \in RcPcs)]_vars
C15_Witness ==
  /\ pc["rx"] = "r_done" /\ closeGateway /\ exc["rx"] = "none"
  /\ msg.op = "DISPATCH" /\ msg.t = "READY" /\ msg.s # sequence

\* the deflate blocks of the messages the socket has delivered completely
Delivered == [i \in 1..(pos \div MsgLen) |-> <<stream[(i - 1) * MsgLen + 1]>>]

\* every message of the stream is a JSON document
AllValid == \A i \in 1..Len(stream) : (i % MsgLen = 1) => stream[i] = OpenBrace

\* C16: on one socket that delivers only binary frames of valid messages,
\* receive() has returned exactly the messages delivered completely, each
\* once, however the messages are cut into frames.
C16_ReturnsEachCompleteMessage ==
  (rsock = 1 /\ ntext = 0 /\ AllValid) =>
     (rstate = "reading" /\ returned = Delivered)

\* the deflate blocks of the delivered messages that are JSON documents
RECURSIVE ValidOnes(_)
ValidOnes(s) ==
  IF s = <<>> THEN <<>>
  ELSE (IF ValidJson(Head(s)) THEN <<Head(s)>> ELSE <<>>) \o ValidOnes(Tail(s))

\* C17: on one socket that delivers whole messages, a message that is no JSON
\* document is dropped: receive() returns only JSON documents, the run loop
\* goes on, every valid message delivered so far has been returned unaltered,
\* and the inflater has been fed each delivered byte once, in order.
C17_InvalidJsonDropped ==
  (rsock = 1 /\ ~fragmented) =>
     /\ \A i \in 1..Len(returned) : ValidJson(returned[i])
     /\ rstate = "reading"
     /\ (ntext = 0 => returned = ValidOnes(Delivered))
     /\ zfed = SubSeq(stream, 1, Len(zfed))

\* C18: whenever the inflater is fed, it is the inflate context created for
\* the current socket and every byte of the buffer came from that socket.
C18_InflateStateFresh ==
  [][(zfed' # zfed /\ zfed' # <<>>) =>
       (zsock = rsock /\ (buffer # <<>> => bufSock = rsock))]_vars

\* a step hands a heartbeat, or a frame of another kind, to the socket
Written(hb) ==
  /\ Len(wire') > Len(wire)
  /\ (wire'[Len(wire')].op = "HEARTBEAT") = hb

\* C19: every frame other than a heartbeat takes a limiter token as it is
\* written, and no refill period sees more than one such frame.
C19_NonHeartbeatLimited ==
  /\ [][Written(FALSE) => tokens' = tokens - 1]_vars
  /\ [](nhInPeriod <= 1)

\* C20: a heartbeat never waits for the rate limiter and takes no token.
C20_HeartbeatBypasses ==
  /\ [](\A t \in Tasks : pc[t] = "s_rl" => wframe[t].op # "HEARTBEAT")
  /\ [][Written(TRUE) => tokens' = tokens]_vars

\* tasks whose send() call has been made and whose frame is not yet written
PendingSend == {t \in Tasks : pc[t] \in {"s_lock", "s_rl"}}

\* u stands before t in the queue of the send lock (its head holds the lock)
QueuedBefore(q, u, t) ==
  \E i, j \in 1..Len(q) : i < j /\ q[i] = u /\ q[j] = t

\* C21: frames passed to send() are written in the order of the calls: a call
\* that finds the lock taken queues behind every earlier caller, the queue is
\* never reordered, and a frame is written only by the caller at its head, so
\* never while an earlier call is still pending, bypass or not.
C21_SendsWrittenInCallOrder ==
  /\ [][\A t \in Tasks : (pc'[t] = "s_lock" /\ pc[t] # "s_lock") =>
          /\ lockQ' # <<>> /\ lockQ'[Len(lockQ')] = t
          /\ \A u \in Tasks \ {t} : (pc[u] = "s_lock" /\ pc'[u] = "s_lock")
                => QueuedBefore(lockQ', u, t)]_vars
  /\ [][\A u, t \in Tasks :
          (QueuedBefore(lockQ, u, t) /\ pc'[u] = pc[u] /\ pc'[t] = pc[t])
             => QueuedBefore(lockQ', u, t)]_vars
  /\ [][\A t \in Tasks : (pc'[t] = "s_write" /\ pc[t] # "s_write") =>
          /\ lockQ' # <<>> /\ Head(lockQ') = t
          /\ \A u \in PendingSend \ {t} : QueuedBefore(lockQ', t, u)
          /\ (Len(wire') > Len(wire) =>
                wire' = Append(wire, wframe'[t]))]_vars
  /\ [][\A t \in Tasks : (pc[t] \in {"s_lock", "s_rl"} /\ pc'[t] = pc[t]) =>
          wframe'[t] = wframe[t]]_vars
C21_Witness ==
  /\ pc["hb"] = "s_write" /\ pc["tx"] = "s_lock" /\ pc["rx"] = "s_lock"
  /\ lockQ = <<"hb", "tx", "rx">>
  /\ wframe["tx"].op = "PRESENCE" /\ wframe["rx"].op = "HEARTBEAT"

\* C22: while a heartbeat written to the current socket has not been
\* acknowledged, ack_pending is set (the `_acknowledged` event is clear),
\* whichever task wrote the heartbeat.
C22_HeartbeatSetsAckPending ==
  ackDue => ~acknowledged

\* C23: a step that writes a frame to the socket, closes it or replaces it is
\* taken while a task holds the send lock.
C23_SocketMutatedUnderLock ==
  [][(Len(wire') > Len(wire) \/ (ws # Null /\ ws' # ws) \/ closeCode' # closeCode)
        => (lockQ # <<>> \/ lockQ' # <<>>)]_vars

\* C24: the receiver of the run loop begins no read and completes no read
\* while the closed-indicator flag is cleared, and never calls receive() on an
\* absent socket.
C24_NoReadWhileReconnecting ==
  /\ [][(pc'["rx"] = "r_read" /\ pc["rx"] # "r_read") => closed']_vars
  /\ [][(pc["rx"] = "r_read" /\ pc'["rx"] = "r_done") => closed]_vars
  /\ [][(exc'["rx"] = "AttributeError" /\ exc["rx"] # "AttributeError") => closed]_vars

\* the step in which a reconnect() gives up waiting for the server update
TimesOut == lastRc' = "timeout" /\ lastRc # "timeout"

\* C25: in a voice session, the step in which a non-resume reconnect times out
\* opens no socket and writes no frame, sets the heartbeater's kill flag and the
\* close flag, and run() is no longer running after it; no socket is opened and
\* no frame written by that reconnect afterwards either.
C25_ServerUpdateTimeoutEndsSession ==
  /\ [][TimesOut =>
         /\ kind = "voice"
         /\ ws = Null /\ ws' = Null /\ gen' = gen /\ wire' = wire
         /\ killBeeGees' /\ closeGateway'
         /\ ~Running']_vars
  /\ [][(lastRc = "timeout" /\ lastRc' = "timeout") =>
         /\ gen' = gen /\ Len(wire') <= Len(wire)
         /\ ~Running']_vars
  /\ [](lastRc = "timeout" => killBeeGees /\ closeGateway)
C25_Witness ==
  /\ lastRc = "timeout" /\ ws = Null /\ killBeeGees /\ closeGateway
  /\ pc["rx"] = "x_start" /\ exc["rx"] = "AttributeError"

\* C26: a voice reconnect that was waiting when set_new_voice_server was called
\* goes on only with the signal set, calls websocket_connect with the endpoint
\* of that call and opens its socket there, writes IDENTIFY with the token of
\* that call (of a later call, if one was made meanwhile), and clears the
\* signal: every non-resume reconnect that connects uses a payload newer than
\* the one the previous reconnect used.
C26_ServerUpdateUsedAndConsumed ==
  /\ [][(vrPc = "rc_vsu" /\ vrPc' = "rc_connect") =>
         /\ voiceServerUpdate /\ ~voiceServerUpdate'
         /\ heard # 0 /\ connUrl' = heard]_vars
  /\ [][(vrPc = "rc_connect" /\ vrPc' = "rc_hello" /\ heard # 0) => sockUrl' = heard]_vars
  /\ [][(vrPc = "rc_hello" /\ vrPc' = "rc_ident" /\ heard # 0) =>
         /\ identTok' = token /\ identTok' >= heard
         /\ (token = ws_url /\ (sockUrl = ws_url => identTok' = sockUrl))]_vars
  /\ [][(vrPc' = "rc_connect" /\ vrPc # "rc_connect") =>
         ~voiceServerUpdate' /\ connUrl' > connUrl]_vars
C26_Witness ==
  /\ vrPc = "rc_ident" /\ nVr = MaxVoiceReconnects
  /\ heard = 2 /\ sockUrl = 2 /\ identTok = 2 /\ ~voiceServerUpdate

\* the positions of a list that hold a locally supported mode
SharedAt(modes) == {i \in 1..Len(modes) : modes[i] \in {SUPPORTED[j] : j \in 1..Len(SUPPORTED)}}
\* the first mode of the list, in its own order, that is locally supported
FirstShared(modes) ==
  modes[CHOOSE i \in SharedAt(modes) : \A j \in SharedAt(modes) : i <= j]

\* C27: when the modes the server offered share an element with the locally
\* supported ones, every SELECT_PROTOCOL frame carries, and every packet is
\* encrypted with, the first offered mode that is locally supported.
C27_FirstSharedModeInServerOrder ==
  /\ [][(Len(selected') > Len(selected) /\ SharedAt(offered) # {}) =>
         selected' = Append(selected, FirstShared(offered))]_vars
  /\ [][(packets' > packets /\ SharedAt(offered) # {}) =>
         usedMode' = FirstShared(offered)]_vars
  /\ [](SharedAt(offered) # {} /\ hsPc = "receiving" =>
         /\ selected = <<FirstShared(offered)>>
         /\ (packets > 0 => usedMode = selected[1]))
C27_Witness ==
  /\ offered = <<"xsalsa20_poly1305_lite", "xsalsa20_poly1305", "xsalsa20_poly1305_suffix">>
  /\ selected = <<"xsalsa20_poly1305">> /\ ready /\ usedMode = "xsalsa20_poly1305"

\* C28: when READY offers no locally supported mode, the handshake ends with
\* an unsupported-mode error, with no discovery datagram and no SELECT_PROTOCOL
\* sent and the ready flag cleared.
C28_NoSharedModeRejected ==
  (offered # <<>> /\ SharedAt(offered) = {}) =>
     /\ hsExc = "UnsupportedMode" /\ hsPc = "raised"
     /\ datagrams = 0 /\ selected = <<>> /\ ~ready

\* C29: an encrypt() call with a mode other than xsalsa20_poly1305 and
\* xsalsa20_poly1305_suffix raises the unsupported-mode error and returns
\* nothing; a call that returns, returns the header followed by an
\* authenticator and encrypted bytes, never nothing and never the data in the clear.
C29_UnsupportedModeRejected ==
  /\ (encPc = "done" /\ encMode \notin {"xsalsa20_poly1305", "xsalsa20_poly1305_suffix"})
        => (encExc = "RuntimeError" /\ encOut = <<>>)
  /\ (encPc = "done" /\ encExc = "none") =>
        /\ encMode \in {"xsalsa20_poly1305", "xsalsa20_poly1305_suffix"}
        /\ Len(encOut) > Len(encHeader) + Len(encData)
        /\ encOut[Len(encHeader) + 1].tag = "mac"
        /\ \A i \in 1..Len(encData) : encOut[Len(encHeader) + 1 + i].tag = "sealed"
C29_Witness ==
  /\ encPc = "done" /\ encMode = "xsalsa20_poly1305_lite"
  /\ encData # <<>> /\ encExc = "RuntimeError" /\ encOut = <<>>

\* C30: in mode xsalsa20_poly1305, with a 12-byte header, the nonce handed to
\* the cipher has 24 bytes, the header first and 12 zero bytes after it, and the
\* packet is the header followed by the ciphertext under that nonce and
\* nothing else.
C30_PlainModeNonceIsHeaderPadded ==
  (encPc = "done" /\ encMode = "xsalsa20_poly1305" /\ Len(encHeader) = HeaderLen) =>
     /\ Len(encNonce) = NonceLen
     /\ SubSeq(encNonce, 1, HeaderLen) = encHeader
     /\ \A i \in (HeaderLen + 1)..NonceLen : encNonce[i] = 0
     /\ encOut = Clear(encHeader) \o Ciphertext(encData, encNonce)
     /\ Len(encOut) = HeaderLen + 1 + Len(encData)
     /\ encOut[Len(encOut)].tag # "clear"
C30_Witness ==
  /\ encPc = "done" /\ encMode = "xsalsa20_poly1305"
  /\ encHeader = Header(1, 1, 1) /\ Len(encData) = MaxData
  /\ encNonce = Header(1, 1, 1) \o Zeros(NonceLen - HeaderLen)
  /\ Len(encOut) = HeaderLen + 1 + MaxData

\* a step in which send_packet was called
PacketSent == spf' # spf \/ rtpPacket' # rtpPacket \/ sock_sequence' # sock_sequence

\* C31: after each send_packet the sequence counter is the previous one plus 1
\* modulo the width of its field; the timestamp is the previous one, or 0 if
\* that one had passed the largest 4-byte value, plus samples_per_frame; and the
\* counters a header is built from fit their fields.
C31_CountersWrap ==
  /\ [][PacketSent =>
         /\ sock_sequence' = (sock_sequence + 1) % (SeqLimit + 1)
         /\ timestamp' = (IF timestamp > StampLimit THEN 0 ELSE timestamp) + spf'
         /\ timestamp' - spf' <= StampLimit]_vars
  /\ [](sock_sequence \in 0..SeqLimit)
  /\ [](rtpHeader # <<>> => \A i \in 3..HeaderLen : rtpHeader[i] \in 0..(ByteBase - 1))
C31_Witness ==
  /\ sock_sequence = 0 /\ rtpHeader # <<>> /\ timestamp > StampLimit

\* C32: every packet handed to the UDP socket starts with the 12 bytes 0x80,
\* 0x78, the sequence counter of that call in 2 bytes, the timestamp of that
\* call in 4 bytes and the ssrc in 4 bytes, most significant byte first.
C32_PacketStartsWithHeader ==
  /\ [][PacketSent =>
         /\ Len(rtpHeader') = HeaderLen
         /\ rtpHeader'[1] = 128 /\ rtpHeader'[2] = 120
         /\ rtpHeader'[3] * ByteBase + rtpHeader'[4] = sock_sequence'
         /\ ((rtpHeader'[5] * ByteBase + rtpHeader'[6]) * ByteBase + rtpHeader'[7]) * ByteBase
               + rtpHeader'[8] = timestamp' - spf'
         /\ ((rtpHeader'[9] * ByteBase + rtpHeader'[10]) * ByteBase + rtpHeader'[11]) * ByteBase
               + rtpHeader'[12] = ssrc
         /\ SubSeq(rtpPacket', 1, HeaderLen) = Clear(rtpHeader')]_vars
C32_Witness ==
  /\ ssrc = 42 /\ sock_sequence = 6 /\ timestamp = 88 + 40 /\ spf = 40
  /\ rtpHeader = <<128, 120, 1, 2, 1, 1, 2, 0, 0, 2, 2, 2>>

\* C33: READY is followed by one discovery datagram of 70 bytes (type 1, length
\* 70, the ssrc, zeros), and SELECT_PROTOCOL is sent only in the step that
\* receives the answer, with the answer's bytes from offset 4 up to the first
\* NUL as address, its last two bytes, most significant first, as port, and the
\* first negotiated mode.
C33_DiscoveryThenSelectProtocol ==
  /\ [][datagrams' > datagrams =>
         /\ datagrams' = 1 /\ Len(dgram') = DiscoveryLen
         /\ SubSeq(dgram', 1, 4) = <<0, DiscoverySend, 0, DiscoveryLen>>
         /\ ((dgram'[5] * 256 + dgram'[6]) * 256 + dgram'[7]) * 256 + dgram'[8] = ssrc'
         /\ \A i \in 9..DiscoveryLen : dgram'[i] = 0
         /\ selected' = <<>>]_vars
  /\ [][Len(selected') > Len(selected) =>
         /\ hsPc = "discovering" /\ reply = <<>> /\ reply' # <<>> /\ datagrams = 1
         /\ LET a == selectFrame'.address
            IN /\ \A i \in 1..Len(a) : a[i] = reply'[IpStart + i] /\ a[i] # 0
               /\ reply'[IpStart + Len(a) + 1] = 0
         /\ selectFrame'.port = reply'[Len(reply') - 1] * 256 + reply'[Len(reply')]
         /\ selectFrame'.mode = voice_modes[1]
         /\ selectFrame'.mode = FirstShared(offered)]_vars
  /\ [][selectFrame' # selectFrame => Len(selected') > Len(selected)]_vars
C33_Witness ==
  /\ selectFrame = [address |-> <<57, 46, 57, 46, 57, 46, 57>>, port |-> 60000,
                    mode |-> "xsalsa20_poly1305_suffix"]
  /\ Len(reply) = DiscoveryLen /\ ssrc = 42 /\ datagrams = 1

\* task t's send() reaches `if self.ws is None` in this step: called on a free
\* lock it gets there at once, called on a taken lock it gets there when the
\* lock is handed to it
SendCalledFree(t) ==
  /\ LockFree(lockQ)
  /\ CASE t = "tx" -> sends' = sends + 1
       [] t = "hb" -> ticks' = ticks + 1 /\ ~HbNeedsReconnect
       [] t = "rx" -> /\ Handles("HEARTBEAT") /\ kind = "main" /\ msg' = NoMsg
                      /\ exc'["rx"] # "CancelledError"
SendGetsLock(t) ==
  /\ pc[t] = "s_lock" /\ Holds(t) /\ pc'[t] # "s_lock"
  \* the step is the task's own, not a cancellation by run()'s caller or by
  \* a cancelled teardown
  /\ exc'[t] # "CancelledError"
  /\ t # "rx" => pc'["rx"] = pc["rx"]
SendChecksSocket(t) == SendCalledFree(t) \/ SendGetsLock(t)

\* C34: a send() that finds the session without a socket (not opened yet, or
\* left without one by a reconnect or by teardown) raises the invalid-state
\* error, hands nothing to a socket, takes no limiter token and does not keep
\* the send lock: the lock is free or has passed to the task waiting behind.
C34_SendWithoutSocketFails ==
  [][\A t \in Tasks : (SendChecksSocket(t) /\ ws = Null) =>
        /\ exc'[t] = "NoSocket"
        /\ wire' = wire /\ tokens' = tokens /\ nhInPeriod' = nhInPeriod
        /\ pc'[t] \notin {"s_rl", "s_write"}
        /\ lockQ' = Without(lockQ, t)]_vars
C34_Witness ==
  /\ sendFound = "unopened" /\ exc["tx"] = "NoSocket" /\ pc["rx"] = "o_start"
  /\ wire = <<>> /\ tokens = 1 /\ LockFree(lockQ)
C34_WitnessAfterReconnect ==
  /\ sendFound = "failed" /\ exc["tx"] = "NoSocket" /\ ws = Null

\* task t builds a heartbeat in this step: send_heartbeat reads self.sequence
\* when it is called, before send() waits for anything
BuiltHeartbeat(t) == wframe[t] = NoFrame /\ wframe'[t].op = "HEARTBEAT"

\* the receive task has completed with a numbered message that run() has not
\* taken yet
Unprocessed == pc["rx"] = "r_done" /\ msg.s # 0

\* run() takes the received message in this step
Processes(o) ==
  /\ Handles(o) /\ pc'["rx"] # "r_done"
  /\ exc'["rx"] # "CancelledError"

\* the spawned READY handler runs in this step
HandlerRuns == pendingEv # <<>> /\ pendingEv' = Tail(pendingEv)

\* C35 (as stated): from the moment a DISPATCH frame numbered s has been
\* received, every heartbeat carries a sequence that includes s.
C35_HeartbeatsAfterReceiveCarrySeq ==
  [][\A t \in Tasks :
       (kind = "main" /\ BuiltHeartbeat(t) /\ Running /\ srvSeq # 0)
         => wframe'[t].seq = srvSeq]_vars

\* C35: run() stores the number s of a DISPATCH frame in the step that spawns
\* the frame's handler, so the handler finds a sequence of at least s, and so
\* does every heartbeat built once run() has taken the frame; a heartbeat
\* built while the completed receive still waits for run() carries the
\* sequence of the frame before.
C35_SequenceSetBeforeSpawn ==
  /\ [][(Processes("DISPATCH") /\ msg.s # 0) =>
          /\ sequence' = msg.s
          /\ (msg.t = "READY" /\ kind = "main") => pendingEv' = Append(pendingEv, msg)]_vars
  /\ [][HandlerRuns => sequence >= Head(pendingEv).s]_vars
  /\ [][\A t \in Tasks :
          (kind = "main" /\ BuiltHeartbeat(t) /\ Running /\ srvSeq # 0) =>
             wframe'[t].seq = (IF Unprocessed THEN sequence ELSE srvSeq)]_vars
C35_Witness ==
  /\ kind = "main" /\ sequence = 2 /\ srvSeq = 2 /\ pendingEv = <<>>
  /\ \E i \in 1..Len(wire) : wire[i].op = "HEARTBEAT" /\ wire[i].seq = 2

\* the handler of a READY frame that carries a session id runs in this step
ReadyHandled == evIn.event = "READY" /\ evIn.has_session_id /\ evIn' = NoEvent

\* C36: when the handler of a READY frame carrying session_id, _trace and the
\* number s has run, session_id and trace are the frame's, the sequence is s,
\* and the handler has emitted one websocket_ready event and nothing else.
C36_ReadyCaptured ==
  [][(ReadyHandled /\ evIn.has_trace /\ evIn.seq # 0) =>
       /\ session_id' = evIn.session_id
       /\ trace' = evIn.trace
       /\ sequence' = evIn.seq
       /\ dispatched' = Append(dispatched, "websocket_ready")
       /\ spawned' = spawned /\ evExc' = "none"]_vars
C36_Witness ==
  /\ session_id = 8 /\ sequence = 1 /\ Len(trace) = 2
  /\ dispatched = <<"raw_socket_receive", "raw_message_create", "websocket_ready">>
  /\ evIn = NoEvent

\* _start_bee_gees has raised: the heartbeater task has ended with an exception
\* other than its cancellation
HbRaised == pc["hb"] = "hb_end" /\ exc["hb"] \notin {"none", "CancelledError"}

\* C37: an exception of the heartbeater stays in its task: the close flag is
\* set with it, run() then ends, and teardown gets past its wait for the
\* heartbeater and runs to its end.
C37_HeartbeaterExceptionClosesSession ==
  /\ [](HbRaised => closeGateway)
  /\ [](HbRaised /\ pc["rx"] = "x_join" => ENABLED ExitJoined)
  /\ [][(HbRaised /\ pc["rx"] = "x_join" /\ pc'["rx"] # "x_join")
          => exc'["rx"] = exc["rx"]]_vars
  /\ (HbRaised /\ Running) ~> ~Running
  /\ (HbRaised /\ Entered) ~> TornDown
C37_Witness ==
  /\ kind = "voice" /\ exc["hb"] = "NotImplementedError" /\ pc["hb"] = "hb_end"
  /\ pc["rx"] = "x_done" /\ exc["rx"] = "none" /\ closeGateway

\* C38 (as stated): the forced receive of reconnect() never calls reconnect(),
\* so no task waits in reconnect() for the send lock that it holds itself.
C38_ForcedReceiveNeverReconnects == \A t \in Tasks : pc[t] # "rc_self"

\* C39: in a main gateway session the spawned READY handler finds the sequence
\* that run() stored for its frame and leaves it as it is, and the stored
\* sequence goes down only when the server has restarted its numbering below
\* it (after a reconnect that identified anew); the frames built from it
\* carry the stored value.
C39_SequenceNeverGoesBack ==
  /\ [][HandlerRuns => (sequence = Head(pendingEv).s /\ sequence' = sequence)]_vars
  /\ [][(kind = "main" /\ sequence' < sequence) => srvSeq < sequence]_vars
C39_Witness ==
  /\ kind = "main" /\ sequence = 2 /\ session_id # Null /\ pendingEv = <<>>
  /\ \E i \in 1..Len(wire) : wire[i].op = "RESUME" /\ wire[i].seq = 2

\* C40 (as stated): while a voice session is connected and its ready flag is
\* set, it has an encryptor built from the SESSION_DESCRIPTION of the
\* connection it is on.
C40_ReadyOnlyAfterDescription ==
  (ready /\ vconn # 0) => (encryptor # NoEncryptor /\ encryptor.conn = vconn)
====
